---- MODULE Spec2Model ----
(***************************************************************************)
(* Model of the incremental build pipeline of the awesome-list catalog:    *)
(* src/diff.ts (diffItems), src/enricher.ts (batchEnrichItems,             *)
(* batchQueryListRepos) and scripts/build-items.ts (the pipeline driver).  *)
(*                                                                         *)
(* The module holds several specifications over one set of variables:      *)
(*   SpecDiff   diffItems applied to bounded (old, new) item lists         *)
(*   SpecFresh  the stale/fresh classification of one source               *)
(*   SpecEnrich the batch loop of batchEnrichItems                         *)
(*   Spec       the pipeline driver over a sequence of runs                *)
(* A specification leaves the variables of the others unchanged.           *)
(***************************************************************************)
EXTENDS Integers, Sequences, FiniteSets, TLC

VARIABLES
  \* SpecDiff
  dPc, dOld, dNew, dRes,
  \* SpecFresh
  fPc, fCached, fRemote, fClass,
  \* SpecEnrich: batchEnrichItems
  ePc,        \* "start", "loop", "done"
  eToken,     \* process.env.GITHUB_TOKEN is set
  eInput,     \* the items as passed in
  eItems,     \* the items, mutated in place
  eI,         \* loop index i
  eDelay,     \* currentDelay
  eErrors,    \* consecutiveErrors
  eNow,       \* the clock
  eCalls,     \* the entity lists of the provider calls made so far
  eLast,      \* the last call handled: batch, entities sent, response, items before
  eLog,       \* every call handled so far: its batch and how it ended
  \* Spec: scripts/build-items.ts over a sequence of runs
  run,            \* number of the current run
  pc,             \* stage of the run about to be executed
  clock,          \* the clock (new Date())
  token,          \* process.env.GITHUB_TOKEN is set
  docs,           \* per source: the items its README parses to (upstream)
  pushed,         \* per source: instant of its last push (upstream)
  gone,           \* the repositories the provider no longer knows
  faults,         \* transient failures so far
  changes,        \* upstream changes so far
  diskIndex,      \* data/items.json.gz
  diskDead,       \* data/deadUrls.json
  existingIndex,  \* the snapshot as loaded at the start of the run, or null
  lists,          \* lists, after the CLI filters
  isFiltering,    \* filterRepo || startIndex > 0 || countLimit < Infinity
  listMetadata,   \* result of batchQueryListRepos
  staleLists, freshLists,
  index,          \* the index under construction
  readmeCache, fetchFailedRepos,
  failedLists,
  attempt,        \* retry pass about to run
  deadUrls,       \* the blocklist in memory
  diffLog,        \* the diffItems calls of this run: repo, pass, URLs handed in or returned
  loadedDead,     \* the blocklist as loaded at the start of this run
  reapedBefore,   \* URLs reaped in earlier runs
  reapedNow,      \* URLs reaped in this run
  writes,         \* what this run has written
  \* SpecLoop: the control of the batch loop of batchEnrichItems
  lPc,
  totalBatches,       \* Math.ceil(repos.length / batchSize)
  batchNum,           \* i / batchSize: batches the loop has moved past
  currentDelay,
  consecutiveErrors,
  sends,              \* times the batch of the last call has been sent
  lastOutcome,        \* how the last call ended
  lastLowQuota,       \* rateLimit.remaining was low in the last answer
  lastBackoff,        \* backoffMs of the last rate-limit signal
  prevDelay,          \* currentDelay before the first call of that batch
  callParity,         \* number of provider calls made so far, modulo 2
  \* SpecFetch: the README fetch stage of scripts/build-items.ts
  hPc,
  hPass,              \* 0 in the main pass, attempt in a retry pass
  hQueue,             \* staleLists in the main pass, failedLists in a retry pass
  hI,                 \* loop index i
  inFlight,           \* the fetch() calls not yet settled: <<repo, combination>>
  hFetched,           \* repos whose README this pass has obtained
  hFailed,            \* fetchFailedRepos (retryFetchFailed) of this pass
  hTried,             \* per repo of the batch, the URLs requested when its fetchReadme ended, and how it ended
  \* SpecRotate: the rolling re-check over a sequence of runs
  rPc,
  rToken,             \* process.env.GITHUB_TOKEN is set in this run
  rIndex,             \* index.lists, carried from run to run by items.json.gz
  rCands,             \* itemsToEnrich of this run
  rVerified,          \* URLs the provider answered for in this run
  rSeen,              \* URLs the provider has answered for in any run
  \* SpecProbe: batchQueryListRepos
  qPc,
  qToken,             \* process.env.GITHUB_TOKEN is set
  qRepos,             \* the ids passed in, each split at "/"
  qI,                 \* loop index i
  qResults,           \* the Map results
  qEmbedded,          \* the ids embedded in a query so far
  qLog,               \* per batch handled: first index, how the call ended, slots
  \* SpecRace: one source under build runs and upstream pushes
  kPc,
  kClock,             \* the clock, in half seconds
  kPushedAt,          \* instant of the last upstream push
  kVersion,           \* number of upstream pushes so far
  kFetched,           \* version of the README the run fetched
  kCached,            \* the entry of the source in items.json.gz
  kClass,             \* classification by the run in progress
  kMissed,            \* a run classified the source fresh while upstream was ahead
  \* SpecDelay: the inter-batch delay of batchEnrichItems over a long list
  wDelay,             \* currentDelay
  wErrors,            \* consecutiveErrors
  wStreak,            \* answered calls without low-quota report since the last other call
  wSignals,           \* calls so far that failed or reported a low quota
  \* SpecSerial: the awaits of the batch loop of batchEnrichItems
  xPc,                \* where the loop is: top, send, await, done
  xRepos,             \* repos: the distinct entities
  xI,                 \* i
  xInFlight,          \* provider calls sent and not yet answered
  xCalls,             \* the batches of the calls sent so far
  xWaited,            \* sleep(currentDelay) was awaited in this iteration
  xSignals,           \* rate-limit signals so far
  xLast               \* how the last call ended

dVars == <<dPc, dOld, dNew, dRes>>
fVars == <<fPc, fCached, fRemote, fClass>>
eVars == <<ePc, eToken, eInput, eItems, eI, eDelay, eErrors, eNow, eCalls, eLast, eLog>>
worldVars == <<token, docs, pushed, gone, faults, changes>>
diskVars == <<diskIndex, diskDead>>
runVars == <<existingIndex, lists, isFiltering, listMetadata, staleLists, freshLists, index,
             readmeCache, fetchFailedRepos, failedLists, attempt, deadUrls>>
ghostVars == <<diffLog, loadedDead, reapedBefore, reapedNow, writes>>
pVars == <<run, pc, clock, worldVars, diskVars, runVars, ghostVars>>
lVars == <<lPc, totalBatches, batchNum, currentDelay, consecutiveErrors, sends,
           lastOutcome, lastLowQuota, lastBackoff, prevDelay, callParity>>
hVars == <<hPc, hPass, hQueue, hI, inFlight, hFetched, hFailed, hTried>>
rVars == <<rPc, rToken, rIndex, rCands, rVerified, rSeen>>
qVars == <<qPc, qToken, qRepos, qI, qResults, qEmbedded, qLog>>
kVars == <<kPc, kClock, kPushedAt, kVersion, kFetched, kCached, kClass, kMissed>>
wVars == <<wDelay, wErrors, wStreak, wSignals>>
xVars == <<xPc, xRepos, xI, xInFlight, xCalls, xWaited, xSignals, xLast>>

-----------------------------------------------------------------------------
(* Bounds of the model *)

\* longest old / new item list handed to diffItems in SpecDiff
MaxDiffLen == 2

\* last instant (in half seconds) of the timestamps drawn in SpecFresh
MaxFreshTick == 7

\* most candidate items handed to batchEnrichItems in SpecEnrich
MaxCandidates == 3

\* entities per provider call; CONFIG.github.batchSize (50) scaled down so
\* that a few candidates make several batches
BatchSize == 2

\* most consecutive failed calls the provider answers with in SpecEnrich
MaxConsecutiveErrors == 3

\* number of runs of the pipeline in Spec
MaxRuns == 2

\* most transient failures (provider, network, parser) in a behaviour; the
\* retry passes of a list that has once failed are not counted
MaxFaults == 1

\* most upstream changes (a push to a source, a repository deleted)
MaxChanges == 1

\* most batches of one batchEnrichItems call in SpecLoop
MaxBatches == 2

\* items of the staleness rotation per run; RECHECK_BATCH_SIZE (1000) scaled
\* down so that the slice leaves items out
RecheckBatchSize == 1

-----------------------------------------------------------------------------
(* src/types.ts : Item                                                     *)

\* an absent optional string (lastEnriched?: string); timestamps are >= 1
Undefined == 0

\* item.github absent
NoGithub == [kind |-> "none", stars |-> 0, at |-> Undefined]

\* GitHubMetadata {stars, language, pushedAt}; "at" is pushedAt
GitHubMetadata(stars, at) == [kind |-> "resolved", stars |-> stars, at |-> at]

\* GitHubNotFound {notFound: true, checkedAt}; "at" is checkedAt
GitHubNotFound(at) == [kind |-> "notFound", stars |-> 0, at |-> at]

Item(name, url, description, github, lastEnriched) ==
  [name |-> name, url |-> url, description |-> description,
   github |-> github, lastEnriched |-> lastEnriched]

UrlsOf(s) == {s[k].url : k \in 1..Len(s)}

-----------------------------------------------------------------------------
(* src/diff.ts                                                             *)

\* new Map(items.map(i => [i.url, i])).has(url)
HasUrl(items, url) == \E k \in 1..Len(items) : items[k].url = url

\* new Map(oldItems.map(i => [i.url, i])).get(url): a later entry of the
\* same key overwrites an earlier one, so the last item with the url is kept
oldByUrl(oldItems, url) ==
  LET ks == {k \in 1..Len(oldItems) : oldItems[k].url = url}
  IN  oldItems[CHOOSE k \in ks : \A j \in ks : j <= k]

\* mutant: the name alone decides between unchanged and updated
ClassifyNameOnly(oldItems, newItem) ==
  IF ~HasUrl(oldItems, newItem.url) THEN "added"
  ELSE IF oldByUrl(oldItems, newItem.url).name = newItem.name THEN "unchanged"
  ELSE "updated"

\* the branch of the loop body of diffItems taken for newItem
Classify(oldItems, newItem) ==
  IF ~HasUrl(oldItems, newItem.url) THEN "added"
  ELSE LET oldItem == oldByUrl(oldItems, newItem.url)
       IN  IF oldItem.name = newItem.name
              /\ oldItem.description = newItem.description
           THEN "unchanged"
           ELSE "updated"

\* mutant: the enrichment data of the new parse are kept
CarryFromNew(newItem, oldItem) == newItem

\* {...newItem, github: oldItem.github, lastEnriched: oldItem.lastEnriched}
Carry(newItem, oldItem) ==
  [newItem EXCEPT !.github = oldItem.github,
                  !.lastEnriched = oldItem.lastEnriched]

\* mutant: removed is looked up in the old map instead of the new one
removedItemsOldMap(oldItems, newItems) ==
  SelectSeq(oldItems, LAMBDA o : ~HasUrl(oldItems, o.url))

\* second loop of diffItems
removedItems(oldItems, newItems) ==
  SelectSeq(oldItems, LAMBDA o : ~HasUrl(newItems, o.url))

diffItems(oldItems, newItems) ==
  LET Kept(class) ==
        LET sel == SelectSeq(newItems, LAMBDA n : Classify(oldItems, n) = class)
        IN  [k \in 1..Len(sel) |-> Carry(sel[k], oldByUrl(oldItems, sel[k].url))]
  IN  [added     |-> SelectSeq(newItems,
                               LAMBDA n : Classify(oldItems, n) = "added"),
       removed   |-> removedItems(oldItems, newItems),
       unchanged |-> Kept("unchanged"),
       updated   |-> Kept("updated")]

EmptyDiff == [added |-> <<>>, removed |-> <<>>, unchanged |-> <<>>, updated |-> <<>>]

-----------------------------------------------------------------------------
(* SpecDiff: diffItems over bounded inputs                                 *)

DiffUrls == {"gh:a/x", "gh:b/y"}

\* (name, description) of a parsed entry
DiffTexts == {<<"n1", "d1">>, <<"n2", "d1">>, <<"n1", "d2">>}

\* items as parseReadme pushes them: no github, no lastEnriched
ParsedItems ==
  {Item(t[1], u, t[2], NoGithub, Undefined) : t \in DiffTexts, u \in DiffUrls}

\* items of a previous snapshot: parsed items, possibly enriched since
SnapshotItems ==
  ParsedItems \cup
  {Item(t[1], u, t[2], GitHubMetadata(5, 1), 1) : t \in DiffTexts, u \in DiffUrls}

SeqsUpTo(S, n) == UNION {[1..m -> S] : m \in 0..n}

DiffInit ==
  /\ dPc = "input"
  /\ dOld \in SeqsUpTo(SnapshotItems, MaxDiffLen)
  /\ dNew \in SeqsUpTo(ParsedItems, MaxDiffLen)
  /\ dRes = EmptyDiff

DiffCall ==
  /\ dPc = "input"
  /\ dRes' = diffItems(dOld, dNew)
  /\ dPc' = "done"
  /\ UNCHANGED <<dOld, dNew>>
  /\ UNCHANGED <<fVars, eVars, pVars, lVars, hVars, rVars, qVars, kVars, wVars, xVars>>

DiffNext == DiffCall


-----------------------------------------------------------------------------
(* Timestamps.  An instant is a number of half seconds; all instants of    *)
(* the model lie in the same minute, so the ISO strings made from them     *)
(* share their first 17 characters "YYYY-MM-DDTHH:MM:" and are modelled    *)
(* by the code units that follow.                                          *)

SecOf(t) == t \div 2
MsOf(t)  == (t % 2) * 500

\* code units of the decimal digits of n, width w
Digits(n, w) ==
  [k \in 1..w |-> 48 + ((n \div (IF w - k = 0 THEN 1
                                 ELSE IF w - k = 1 THEN 10 ELSE 100)) % 10)]

\* new Date().toISOString(): "...SS.mmmZ"
toISOString(t) == Digits(SecOf(t), 2) \o <<46>> \o Digits(MsOf(t), 3) \o <<90>>

\* the provider's DateTime (pushedAt): "...SSZ", whole seconds
GitHubDateTime(t) == Digits(SecOf(t), 2) \o <<90>>

\* a > b on JavaScript strings: by code units, a proper prefix is smaller
RECURSIVE StringGreater(_, _)
StringGreater(a, b) ==
  IF a = <<>> THEN FALSE
  ELSE IF b = <<>> THEN TRUE
  ELSE IF Head(a) # Head(b) THEN Head(a) > Head(b)
  ELSE StringGreater(Tail(a), Tail(b))

\* the instant an ISO string denotes, in milliseconds (new Date(s).getTime())
TimeOf(s) ==
  LET d(k) == s[k] - 48
      sec  == d(1) * 10 + d(2)
  IN  IF Len(s) = 3 THEN sec * 1000
      ELSE sec * 1000 + d(4) * 100 + d(5) * 10 + d(6)

-----------------------------------------------------------------------------
(* scripts/build-items.ts : stale / fresh classification                   *)

\* existingIndex?.lists[repo] absent
NoEntry == [exists |-> FALSE, lastParsed |-> <<>>]

\* listMetadata.get(repo): undefined (no map entry), null, or {pushedAt}
RemoteAbsent == [kind |-> "absent", pushedAt |-> <<>>]
RemoteNull == [kind |-> "null", pushedAt |-> <<>>]
RemoteAt(str) == [kind |-> "resolved", pushedAt |-> str]

\* mutant: a missing prior entry does not make the source stale
isStaleNoCacheCheck(cached, remote) ==
  \/ remote.kind # "resolved"
  \/ StringGreater(remote.pushedAt, cached.lastParsed)

\* !cached || !remote || remote.pushedAt > cached.lastParsed
isStale(cached, remote) ==
  \/ ~cached.exists
  \/ remote.kind # "resolved"
  \/ StringGreater(remote.pushedAt, cached.lastParsed)

-----------------------------------------------------------------------------
(* SpecFresh: the classification of one source                             *)

FreshTicks == 0..MaxFreshTick

FreshInit ==
  /\ fPc = "input"
  /\ fCached \in {NoEntry} \cup
       {[exists |-> TRUE, lastParsed |-> toISOString(t)] : t \in FreshTicks}
  /\ fRemote \in {RemoteAbsent, RemoteNull} \cup
       {RemoteAt(GitHubDateTime(t)) : t \in FreshTicks}
  /\ fClass = "none"

FreshClassify ==
  /\ fPc = "input"
  /\ fClass' = IF isStale(fCached, fRemote) THEN "stale" ELSE "fresh"
  /\ fPc' = "done"
  /\ UNCHANGED <<fCached, fRemote>>
  /\ UNCHANGED <<dVars, eVars, pVars, lVars, hVars, rVars, qVars, kVars, wVars, xVars>>

FreshNext == FreshClassify

-----------------------------------------------------------------------------
(* Claims about the classification (SpecFresh)                             *)

\* C5: a source is fresh iff a prior entry exists, the prober resolved a
\* remote timestamp, and that timestamp is not later than the entry's
\* lastParsed; otherwise it is stale.
C5_FreshIffNotLater ==
  fPc = "done" =>
    (fClass = "fresh" <=>
       /\ fCached.exists
       /\ fRemote.kind = "resolved"
       /\ TimeOf(fRemote.pushedAt) <= TimeOf(fCached.lastParsed))

\* what the code does: the strings are compared, and "SSZ" > "SS.mmmZ", so a
\* remote timestamp in the second of lastParsed is stale
C5_FreshIffEarlierSecond ==
  fPc = "done" =>
    /\ fClass \in {"fresh", "stale"}
    /\ fClass = "fresh" <=>
         /\ fCached.exists
         /\ fRemote.kind = "resolved"
         /\ TimeOf(fRemote.pushedAt) \div 1000 < TimeOf(fCached.lastParsed) \div 1000
    /\ ~fCached.exists => fClass = "stale"
    /\ fRemote.kind # "resolved" => fClass = "stale"

C5_Witness ==
  /\ fPc = "done"
  /\ fCached.exists
  /\ fRemote.kind = "resolved"
  /\ TimeOf(fRemote.pushedAt) <= TimeOf(fCached.lastParsed)
  /\ fClass = "stale"

-----------------------------------------------------------------------------
(* src/enricher.ts                                                         *)

\* A URL: host, the first two path segments (sequences of code units) and
\* what follows them.
Url(host, owner, repo, rest) ==
  [host |-> host, owner |-> owner, repo |-> repo, rest |-> rest]

\* no match / invalid prefix: extractGitHubRepo returns null
NullRepo == <<>>

\* "topics", "sponsors", "orgs", "settings", "marketplace"; of these the
\* model's URLs use "orgs"
invalidPrefixes == {<<111, 114, 103, 115>>}

\* url.match(/github\.com\/([^\/]+\/[^\/]+)/), ".git", "#...", "?..." cut
\* off, non-repo prefixes skipped; the entity is <<owner, name>>
extractGitHubRepo(url) ==
  IF url.host # "github.com" THEN NullRepo
  ELSE IF url.owner \in invalidPrefixes THEN NullRepo
  ELSE <<url.owner, url.repo>>

\* url.startsWith("https://github.com/")
IsGitHubUrl(url) == url.host = "github.com"

\* /^[a-zA-Z0-9_.-]+$/ on the code units of a name
validateGitHubName(name) ==
  /\ name # <<>>
  /\ \A k \in 1..Len(name) :
       \/ name[k] \in 97..122
       \/ name[k] \in 65..90
       \/ name[k] \in 48..57
       \/ name[k] \in {95, 46, 45}

\* the entities of a batch that are embedded in the query
validBatch(batch) ==
  SelectSeq(batch, LAMBDA r : validateGitHubName(r[1]) /\ validateGitHubName(r[2]))

\* mutant: one key per item, no grouping
repoKeysPerItem(items) ==
  SelectSeq([k \in 1..Len(items) |-> extractGitHubRepo(items[k].url)],
            LAMBDA r : r # NullRepo)

\* Array.from(repoMap.keys()): the distinct entities of the items in the
\* order of their first occurrence
RECURSIVE repoKeys(_)
repoKeys(items) ==
  IF items = <<>> THEN <<>>
  ELSE LET init == repoKeys(SubSeq(items, 1, Len(items) - 1))
           r == extractGitHubRepo(items[Len(items)].url)
       IN  IF r = NullRepo \/ \E k \in 1..Len(init) : init[k] = r
           THEN init
           ELSE Append(init, r)

\* mutant: every iteration takes the first batch again
batchAtFirst(repos, i) ==
  SubSeq(repos, 1, IF BatchSize < Len(repos) THEN BatchSize ELSE Len(repos))

\* mutant: a batch takes all that is left
batchAtRest(repos, i) == SubSeq(repos, i + 1, Len(repos))

\* repos.slice(i, i + batchSize)
batchAt(repos, i) ==
  SubSeq(repos, i + 1, IF i + BatchSize < Len(repos) THEN i + BatchSize ELSE Len(repos))

\* What the provider holds about an entity: the star count and pushedAt it
\* answers with when it resolves the entity named in a slot of the query.
WorldStars(repo) == IF repo[2] = <<120>> THEN 0 ELSE repo[2][1]
WorldPushedAt(repo) == 1

\* The response to a query whose alias repo<k-1> names sent[k]: per slot the
\* entity's data, or null with a NOT_FOUND error, with an error of another
\* type, or with no error at all.
SlotOutcomes == {"data", "notFound", "otherError", "nullNoError"}

Responses(sent) ==
  [slots : [1..Len(sent) -> SlotOutcomes], lowQuota : BOOLEAN]

\* json.data["repo" + (k-1)] of the response to the query naming sent
slotData(sent, resp, k) ==
  IF k \in 1..Len(sent) /\ resp.slots[k] = "data"
  THEN GitHubMetadata(WorldStars(sent[k]), WorldPushedAt(sent[k]))
  ELSE NoGithub

\* json.errors entries with path ["repo<idx>"]: the idx + 1
errorSlots(sent, resp) ==
  {k \in 1..Len(sent) : resp.slots[k] \in {"notFound", "otherError"}}

\* mutant: slot j is read for the entity at position j of the whole batch
entityOfSlotByBatchPosition(batch, sent, j) ==
  IF j \in 1..Len(batch) THEN batch[j] ELSE NullRepo

\* const repo = batch[j], where result["repo" + j] is slot j of the query:
\* the entity that slot j was composed for
entityOfSlot(batch, sent, j) ==
  IF j \in 1..Len(sent) THEN sent[j] ELSE NullRepo

\* notFoundRepos: batch[idx] for every error whose path starts with "repo"
notFoundRepos(batch, sent, resp) ==
  {entityOfSlot(batch, sent, k) : k \in errorSlots(sent, resp)} \ {NullRepo}

\* mutant: a resolved entity with 0 stars is taken for missing data
hasDataStarsTruthy(data) == data.kind = "resolved" /\ data.stars # 0

\* if (data)
hasData(data) == data.kind = "resolved"

\* mutant: every null slot is taken for a dead entity
isMarkedDeadAnyNull(notFound, repo) == TRUE

\* else if (notFoundRepos.has(repo))
isMarkedDead(notFound, repo) == repo \in notFound

\* the loop over j of "Process results": the items after the response
processResults(items, batch, sent, resp, now) ==
  LET slotsOf(repo) ==
        {j \in 1..Len(batch) : entityOfSlot(batch, sent, j) = repo}
      notFound == notFoundRepos(batch, sent, resp)
      \* the loop visits the slots in order; a later slot of the same
      \* entity overwrites an earlier one
      after(item, j) ==
        LET data == slotData(sent, resp, j)
        IN  IF hasData(data)
            THEN [item EXCEPT !.github = data, !.lastEnriched = now]
            ELSE IF isMarkedDead(notFound, entityOfSlot(batch, sent, j))
            THEN [item EXCEPT !.github = GitHubNotFound(now), !.lastEnriched = now]
            ELSE item
  IN  [k \in 1..Len(items) |->
         LET repo == extractGitHubRepo(items[k].url)
             js == IF repo = NullRepo THEN {} ELSE slotsOf(repo)
         IN  IF js = {} THEN items[k]
             ELSE after(items[k], CHOOSE j \in js : \A j2 \in js : j2 <= j)]

\* CONFIG.github
baseDelayMs == 500
maxDelayMs == 10000
maxBackoffMs == 60000
lowQuotaMaxDelayMs == 5000

Min(a, b) == IF a < b THEN a ELSE b
Max(a, b) == IF a > b THEN a ELSE b

RECURSIVE Pow2(_)
Pow2(n) == IF n = 0 THEN 1 ELSE 2 * Pow2(n - 1)

\* mutant: the speed-up has no floor
delayAfterSuccessNoFloor(delay, lowQuota) ==
  LET slowed == IF lowQuota THEN Min((delay * 3) \div 2, lowQuotaMaxDelayMs) ELSE delay
  IN  (slowed * 9) \div 10

\* mutant: a success puts the delay back to the base delay
delayAfterSuccessToBase(delay, lowQuota) == baseDelayMs

\* currentDelay after a successful batch (fractions of a millisecond dropped)
delayAfterSuccess(delay, lowQuota) ==
  LET slowed == IF lowQuota THEN Min((delay * 3) \div 2, lowQuotaMaxDelayMs) ELSE delay
  IN  Max((slowed * 9) \div 10, baseDelayMs)

\* mutant: the backoff has no ceiling
backoffMsUncapped(errors) == baseDelayMs * Pow2(errors)

\* Math.min(baseDelayMs * Math.pow(2, consecutiveErrors), maxBackoffMs)
backoffMs(errors) == Min(baseDelayMs * Pow2(errors), maxBackoffMs)

NoCall == [batch |-> <<>>, sent |-> <<>>, kind |-> "none",
           resp |-> [slots |-> <<>>, lowQuota |-> FALSE],
           before |-> <<>>, now |-> Undefined]

-----------------------------------------------------------------------------
(* SpecEnrich: batchEnrichItems on a bounded candidate list                *)

NameA == <<97>>
NameX == <<120>>
NameY == <<121>>
\* y"z : fails validateGitHubName
NameQuoted == <<121, 34, 122>>

UrlAX == Url("github.com", NameA, NameX, "")
UrlAY == Url("github.com", NameA, NameY, "")
UrlAQ == Url("github.com", NameA, NameQuoted, "")
UrlOther == Url("example.com", NameA, NameX, "")

\* candidates: items without a record (added or missing metadata) and an
\* item of the rotation slice (resolved in an earlier run, at instant 1)
CandidateItems ==
  {Item("n1", u, "d1", NoGithub, Undefined) : u \in {UrlAX, UrlAY, UrlAQ, UrlOther}}
  \cup {Item("n2", UrlAY, "d1", GitHubMetadata(9, 1), 1)}

InjectiveSeqsUpTo(S, n) ==
  {q \in SeqsUpTo(S, n) : \A i, j \in 1..Len(q) : i # j => q[i] # q[j]}

EnrichInit ==
  /\ ePc = "start"
  /\ eToken \in BOOLEAN
  /\ eInput \in InjectiveSeqsUpTo(CandidateItems, MaxCandidates)
  /\ eItems = eInput
  /\ eI = 0
  /\ eDelay = baseDelayMs
  /\ eErrors = 0
  /\ eNow = 2
  /\ eCalls = <<>>
  /\ eLast = NoCall
  /\ eLog = <<>>

eRepos == repoKeys(eItems)
eBatch == batchAt(eRepos, eI)

\* mutant: the missing token is not noticed
EnrichNoTokenEntersLoop ==
  /\ ePc = "start"
  /\ ~eToken
  /\ ePc' = "loop"
  /\ UNCHANGED <<eToken, eInput, eItems, eI, eDelay, eErrors, eNow, eCalls, eLast, eLog>>
  /\ UNCHANGED <<dVars, fVars, pVars, lVars, hVars, rVars, qVars, kVars, wVars, xVars>>

\* if (!token) return items
EnrichNoToken ==
  /\ ePc = "start"
  /\ ~eToken
  /\ ePc' = "done"
  /\ UNCHANGED <<eToken, eInput, eItems, eI, eDelay, eErrors, eNow, eCalls, eLast, eLog>>
  /\ UNCHANGED <<dVars, fVars, pVars, lVars, hVars, rVars, qVars, kVars, wVars, xVars>>

\* repoMap, repos, currentDelay, consecutiveErrors set up; the loop is entered
EnrichBegin ==
  /\ ePc = "start"
  /\ eToken
  /\ ePc' = "loop"
  /\ UNCHANGED <<eToken, eInput, eItems, eI, eDelay, eErrors, eNow, eCalls, eLast, eLog>>
  /\ UNCHANGED <<dVars, fVars, pVars, lVars, hVars, rVars, qVars, kVars, wVars, xVars>>

\* one iteration whose call is answered with data: the try block
EnrichBatchOk ==
  /\ ePc = "loop"
  /\ eI < Len(eRepos)
  /\ LET sent == validBatch(eBatch)
     IN  \E resp \in Responses(sent) :
           /\ eItems' = processResults(eItems, eBatch, sent, resp, eNow)
           /\ eDelay' = delayAfterSuccess(eDelay, resp.lowQuota)
           /\ eCalls' = Append(eCalls, sent)
           /\ eLast' = [batch |-> eBatch, sent |-> sent, kind |-> "ok",
                        resp |-> resp, before |-> eItems, now |-> eNow]
  /\ eLog' = Append(eLog, [batch |-> eBatch, kind |-> "ok"])
  /\ eErrors' = 0
  /\ eI' = eI + BatchSize
  /\ eNow' = eNow + 1
  /\ UNCHANGED <<ePc, eToken, eInput>>
  /\ UNCHANGED <<dVars, fVars, pVars, lVars, hVars, rVars, qVars, kVars, wVars, xVars>>

\* one iteration whose call fails with "403" / "SecondaryRateLimit": backoff,
\* i -= batchSize; continue (the same batch is the next one)
EnrichRateLimited ==
  /\ ePc = "loop"
  /\ eI < Len(eRepos)
  /\ eErrors < MaxConsecutiveErrors
  /\ eErrors' = eErrors + 1
  /\ eDelay' = backoffMs(eErrors + 1)
  /\ eCalls' = Append(eCalls, validBatch(eBatch))
  /\ eLast' = [NoCall EXCEPT !.batch = eBatch, !.sent = validBatch(eBatch),
                             !.kind = "rateLimited", !.before = eItems, !.now = eNow]
  /\ eLog' = Append(eLog, [batch |-> eBatch, kind |-> "rateLimited"])
  /\ eNow' = eNow + 1
  /\ UNCHANGED <<ePc, eToken, eInput, eItems, eI>>
  /\ UNCHANGED <<dVars, fVars, pVars, lVars, hVars, rVars, qVars, kVars, wVars, xVars>>

\* one iteration whose call fails otherwise (HTTP status, errors without
\* data, network error, timeout): logged, the loop goes on with the next batch
EnrichBatchError ==
  /\ ePc = "loop"
  /\ eI < Len(eRepos)
  /\ eErrors < MaxConsecutiveErrors
  /\ eErrors' = eErrors + 1
  /\ eDelay' = IF eErrors + 1 >= 3 THEN Min(eDelay * 2, maxDelayMs) ELSE eDelay
  /\ eCalls' = Append(eCalls, validBatch(eBatch))
  /\ eLast' = [NoCall EXCEPT !.batch = eBatch, !.sent = validBatch(eBatch),
                             !.kind = "error", !.before = eItems, !.now = eNow]
  /\ eLog' = Append(eLog, [batch |-> eBatch, kind |-> "error"])
  /\ eI' = eI + BatchSize
  /\ eNow' = eNow + 1
  /\ UNCHANGED <<ePc, eToken, eInput, eItems>>
  /\ UNCHANGED <<dVars, fVars, pVars, lVars, hVars, rVars, qVars, kVars, wVars, xVars>>

\* the loop condition fails: return items
EnrichReturn ==
  /\ ePc = "loop"
  /\ eI >= Len(eRepos)
  /\ ePc' = "done"
  /\ UNCHANGED <<eToken, eInput, eItems, eI, eDelay, eErrors, eNow, eCalls, eLast, eLog>>
  /\ UNCHANGED <<dVars, fVars, pVars, lVars, hVars, rVars, qVars, kVars, wVars, xVars>>

EnrichNext ==
  \/ EnrichNoToken
  \/ EnrichBegin
  \/ EnrichBatchOk
  \/ EnrichRateLimited
  \/ EnrichBatchError
  \/ EnrichReturn

EnrichIdle ==
  /\ ePc = "off" /\ eToken = FALSE /\ eInput = <<>> /\ eItems = <<>> /\ eI = 0
  /\ eDelay = baseDelayMs /\ eErrors = 0 /\ eNow = 0 /\ eCalls = <<>> /\ eLast = NoCall /\ eLog = <<>>

-----------------------------------------------------------------------------
(* SpecLoop: the batch loop of batchEnrichItems, its control only          *)

\* CONFIG.github.maxRetries
maxRetries == 3

\* the least count of consecutive errors from which backoffMs is the
\* maximum; consecutiveErrors is kept up to this value (beyond it the code
\* behaves the same for every value)
ErrorsSaturation ==
  CHOOSE n \in 0..20 : /\ baseDelayMs * Pow2(n) >= maxBackoffMs
                       /\ \A k \in 0..(n-1) : baseDelayMs * Pow2(k) < maxBackoffMs

\* sends is kept up to one more than the spec's ceiling allows
SendsSaturation == maxRetries + 2

\* sends and prevDelay for a call made now: a call after a rate-limit signal
\* sends the same batch again
sendsNow == IF lastOutcome = "rateLimited" THEN Min(sends + 1, SendsSaturation) ELSE 1
prevDelayNow == IF lastOutcome = "rateLimited" THEN prevDelay ELSE currentDelay

LoopInit ==
  /\ lPc = "loop"
  /\ totalBatches \in 1..MaxBatches
  /\ batchNum = 0
  /\ currentDelay = baseDelayMs
  /\ consecutiveErrors = 0
  /\ sends = 0 /\ lastOutcome = "none" /\ lastLowQuota = FALSE
  /\ lastBackoff = 0 /\ prevDelay = baseDelayMs /\ callParity = 0

\* an iteration whose call is answered: low-quota slow-down, "Reset on success"
LoopSuccess ==
  /\ lPc = "loop" /\ batchNum < totalBatches
  /\ \E lowQuota \in BOOLEAN :
       /\ currentDelay' = delayAfterSuccess(currentDelay, lowQuota)
       /\ lastLowQuota' = lowQuota
  /\ consecutiveErrors' = 0
  /\ batchNum' = batchNum + 1
  /\ sends' = sendsNow /\ prevDelay' = prevDelayNow
  /\ callParity' = 1 - callParity
  /\ lastOutcome' = "ok"
  /\ UNCHANGED <<lPc, totalBatches, lastBackoff>>
  /\ UNCHANGED <<dVars, fVars, eVars, pVars, hVars, rVars, qVars, kVars, wVars, xVars>>

\* an iteration whose call fails with "403" / "SecondaryRateLimit":
\* backoff, currentDelay = backoffMs, i -= batchSize, continue
LoopRateLimited ==
  /\ lPc = "loop" /\ batchNum < totalBatches
  /\ consecutiveErrors' = Min(consecutiveErrors + 1, ErrorsSaturation)
  /\ currentDelay' = backoffMs(consecutiveErrors')
  /\ lastBackoff' = backoffMs(consecutiveErrors')
  /\ sends' = sendsNow /\ prevDelay' = prevDelayNow
  /\ callParity' = 1 - callParity
  /\ lastOutcome' = "rateLimited"
  /\ UNCHANGED <<lPc, totalBatches, batchNum, lastLowQuota>>
  /\ UNCHANGED <<dVars, fVars, eVars, pVars, hVars, rVars, qVars, kVars, wVars, xVars>>

\* an iteration whose call fails otherwise: logged, slow-down from the third
\* consecutive error, the loop goes on with the next batch
LoopError ==
  /\ lPc = "loop" /\ batchNum < totalBatches
  /\ consecutiveErrors' = Min(consecutiveErrors + 1, ErrorsSaturation)
  /\ currentDelay' = IF consecutiveErrors' >= 3
                     THEN Min(currentDelay * 2, maxDelayMs)
                     ELSE currentDelay
  /\ batchNum' = batchNum + 1
  /\ sends' = sendsNow /\ prevDelay' = prevDelayNow
  /\ callParity' = 1 - callParity
  /\ lastOutcome' = "error"
  /\ UNCHANGED <<lPc, totalBatches, lastLowQuota, lastBackoff>>
  /\ UNCHANGED <<dVars, fVars, eVars, pVars, hVars, rVars, qVars, kVars, wVars, xVars>>

\* i < repos.length fails: return items
LoopReturn ==
  /\ lPc = "loop" /\ batchNum >= totalBatches
  /\ lPc' = "done"
  /\ UNCHANGED <<totalBatches, batchNum, currentDelay, consecutiveErrors, sends,
                 lastOutcome, lastLowQuota, lastBackoff, prevDelay, callParity>>
  /\ UNCHANGED <<dVars, fVars, eVars, pVars, hVars, rVars, qVars, kVars, wVars, xVars>>

LoopNext ==
  \/ LoopSuccess
  \/ LoopRateLimited
  \/ LoopError
  \/ LoopReturn

LoopIdle ==
  /\ lPc = "off" /\ totalBatches = 0 /\ batchNum = 0
  /\ currentDelay = baseDelayMs /\ consecutiveErrors = 0
  /\ sends = 0 /\ lastOutcome = "none" /\ lastLowQuota = FALSE
  /\ lastBackoff = 0 /\ prevDelay = baseDelayMs /\ callParity = 0

-----------------------------------------------------------------------------
(* scripts/build-items.ts                                                  *)

\* data/lists.json: the source ids, in file order
Registry == <<"s1", "s2">>
Sources == {Registry[k] : k \in 1..Len(Registry)}

SeqToSet(q) == {q[k] : k \in 1..Len(q)}

\* ListEntry, with the key it is stored under
ListEntry(repo, lastParsed, pushedAt, items) ==
  [repo |-> repo, lastParsed |-> lastParsed, pushedAt |-> pushedAt, items |-> items]

\* index.lists[repo] is defined
hasList(ls, repo) == \E k \in 1..Len(ls) : ls[k].repo = repo

\* index.lists[repo]
getList(ls, repo) == ls[CHOOSE k \in 1..Len(ls) : ls[k].repo = repo]

\* index.lists[repo] = entry: a key already present keeps its place in the
\* object's key order, a new key comes last
putList(ls, entry) ==
  IF hasList(ls, entry.repo)
  THEN [k \in 1..Len(ls) |-> IF ls[k].repo = entry.repo THEN entry ELSE ls[k]]
  ELSE Append(ls, entry)

\* no items.json.gz (existingIndex = null); also the index a run starts from
NoIndex == [exists |-> FALSE, listCount |-> 0, itemCount |-> 0, lists |-> <<>>]

\* existingIndex?.lists[repo], as far as the classification reads it
cachedOf(existing, repo) ==
  IF existing.exists /\ hasList(existing.lists, repo)
  THEN [exists |-> TRUE, lastParsed |-> getList(existing.lists, repo).lastParsed]
  ELSE NoEntry

\* existingIndex?.lists[list.repo]?.items ?? []
oldItemsOf(existing, repo) ==
  IF existing.exists /\ hasList(existing.lists, repo)
  THEN getList(existing.lists, repo).items
  ELSE <<>>

\* mutant: the blocklist is not consulted
filterDeadNothing(items, dead) == items

\* parseReadme(readme).filter(item => !deadUrls.has(item.url))
filterDead(items, dead) == SelectSeq(items, LAMBDA it : it.url \notin dead)

\* remote?.pushedAt ?? ""
pushedAtOf(remote) == IF remote.kind = "resolved" THEN remote.pushedAt ELSE <<>>

\* the body of the try block for one list whose README was read: filter,
\* diff, store the entry, count it.  acc = [index, failed, log, pass]
processOne(acc, repo, readme, existing, remote, dead, t) ==
  LET newItems == filterDead(readme, dead)
      diff == diffItems(oldItemsOf(existing, repo), newItems)
      items == diff.unchanged \o diff.updated \o diff.added
      entry == ListEntry(repo, toISOString(t), pushedAtOf(remote), items)
  IN  [index  |-> [acc.index EXCEPT !.lists = putList(@, entry),
                                    !.listCount = @ + 1],
       failed |-> acc.failed,
       log    |-> acc.log \cup {[repo |-> repo, pass |-> acc.pass,
                                 urls |-> UrlsOf(newItems) \cup UrlsOf(items)]},
       pass   |-> acc.pass]

\* outcome of fetchReadme and parseReadme for one list, chosen by the
\* environment: the README is read and parsed, no branch/filename
\* combination answers, or the processing throws
ListOutcomes == {"ok", "fetchFailed", "throws"}

\* mutant: the pass ends at the first list that has no README or throws
mainPassBreaks(acc, todo, cache, throws, existing, meta, dead, t) ==
  LET stops(k) == ~cache[todo[k]].ok \/ todo[k] \in throws
      n == IF \E k \in 1..Len(todo) : stops(k)
           THEN (CHOOSE k \in 1..Len(todo) : stops(k) /\ \A j \in 1..(k-1) : ~stops(j)) - 1
           ELSE Len(todo)
      Done[k \in 0..n] ==
        IF k = 0 THEN acc
        ELSE processOne(Done[k-1], todo[k], cache[todo[k]].items, existing,
                        meta[todo[k]], dead, t)
  IN  [Done[n] EXCEPT !.failed =
         SelectSeq(todo, LAMBDA r : cache[r].ok /\ r \in throws)]

\* the main pass over staleLists: a list without README is skipped
\* (continue), an exception puts the list into failedLists
RECURSIVE mainPass(_, _, _, _, _, _, _, _)
mainPass(acc, todo, cache, throws, existing, meta, dead, t) ==
  IF todo = <<>> THEN acc
  ELSE LET repo == Head(todo)
           next == IF ~cache[repo].ok THEN acc
                   ELSE IF repo \in throws
                   THEN [acc EXCEPT !.failed = Append(@, repo)]
                   ELSE processOne(acc, repo, cache[repo].items, existing,
                                   meta[repo], dead, t)
       IN  mainPass(next, Tail(todo), cache, throws, existing, meta, dead, t)

\* mutant: a retry pass processes nothing and empties the failing set
retryPassGivesUp(acc, todo, outcome, world, existing, meta, dead, t) == acc

\* one retry pass over failedLists; acc.failed collects stillFailed
RECURSIVE retryPass(_, _, _, _, _, _, _, _)
retryPass(acc, todo, outcome, world, existing, meta, dead, t) ==
  IF todo = <<>> THEN acc
  ELSE LET repo == Head(todo)
           next == IF outcome[repo] = "ok"
                   THEN processOne(acc, repo, world[repo], existing,
                                   meta[repo], dead, t)
                   ELSE [acc EXCEPT !.failed = Append(@, repo)]
       IN  retryPass(next, Tail(todo), outcome, world, existing, meta, dead, t)

\* mutant: fresh lists are not copied
copyFreshNothing(idx, fresh, existing) == idx

\* "Copy fresh (unchanged) lists from existing index"
RECURSIVE copyFresh(_, _, _)
copyFresh(idx, fresh, existing) ==
  IF fresh = <<>> THEN idx
  ELSE LET repo == Head(fresh)
           next == IF existing.exists /\ hasList(existing.lists, repo)
                   THEN [idx EXCEPT !.lists = putList(@, getList(existing.lists, repo)),
                                    !.listCount = @ + 1]
                   ELSE idx
       IN  copyFresh(next, Tail(fresh), existing)

\* mutant: merge mode keeps nothing
mergePreservedNothing(idx, entries) == idx

\* mutant: merge mode counts every entry of the existing index
mergePreservedCountsAll(idx, entries) ==
  [idx EXCEPT !.lists = @ \o SelectSeq(entries, LAMBDA e : ~hasList(idx.lists, e.repo)),
              !.listCount = @ + Len(entries)]

\* merge mode: entries of the existing index the run has not stored
RECURSIVE mergePreserved(_, _)
mergePreserved(idx, entries) ==
  IF entries = <<>> THEN idx
  ELSE LET e == Head(entries)
           next == IF ~hasList(idx.lists, e.repo)
                   THEN [idx EXCEPT !.lists = Append(@, e), !.listCount = @ + 1]
                   ELSE idx
       IN  mergePreserved(next, Tail(entries))

\* the items of all entries in key order, each with its sourceList
RECURSIVE withSource(_)
withSource(ls) ==
  IF ls = <<>> THEN <<>>
  ELSE [k \in 1..Len(Head(ls).items) |->
          [item |-> Head(ls).items[k], sourceList |-> Head(ls).repo]]
       \o withSource(Tail(ls))

\* items missing GitHub metadata, from processed lists only
missingMetadata(ls, processed) ==
  SelectSeq(withSource(ls),
            LAMBDA c : /\ c.sourceList \in processed
                       /\ IsGitHubUrl(c.item.url)
                       /\ c.item.github.kind = "none")

\* allIndexedItems: resolved items with a lastEnriched, from every entry
allIndexedItems(ls) ==
  SelectSeq(withSource(ls),
            LAMBDA c : /\ IsGitHubUrl(c.item.url)
                       /\ c.item.github.kind = "resolved"
                       /\ c.item.lastEnriched # Undefined)

\* mutant: the candidates are left in the order of the index
sortByLastEnrichedNot(cs) == cs

\* .sort((a, b) => a.lastEnriched.localeCompare(b.lastEnriched)): stable,
\* ascending; the strings are all of toISOString's format, so their order is
\* the order of the instants
sortByLastEnriched(cs) ==
  LET before(j, i) ==
        \/ cs[j].item.lastEnriched < cs[i].item.lastEnriched
        \/ cs[j].item.lastEnriched = cs[i].item.lastEnriched /\ j < i
      place(i) == 1 + Cardinality({j \in 1..Len(cs) : before(j, i)})
  IN  [p \in 1..Len(cs) |-> cs[CHOOSE i \in 1..Len(cs) : place(i) = p]]

\* mutant: the sorted candidates are not cut to the recheck size
staleItemsWhole(ls) == sortByLastEnriched(allIndexedItems(ls))

\* staleItems: .slice(0, RECHECK_BATCH_SIZE)
staleItems(ls) ==
  LET sorted == sortByLastEnriched(allIndexedItems(ls))
  IN  SubSeq(sorted, 1, Min(Len(sorted), RecheckBatchSize))

\* itemsToEnrich
itemsToEnrich(ls, processed) == missingMetadata(ls, processed) \o staleItems(ls)

\* What the provider answers for the entities sent: NOT_FOUND for a
\* repository that is gone, data for the others; the slots in lost come back
\* null without an error.
providerAnswer(sent, lost) ==
  [slots |-> [k \in 1..Len(sent) |->
                IF k \in lost THEN "nullNoError"
                ELSE IF sent[k] \in gone THEN "notFound"
                ELSE "data"],
   lowQuota |-> FALSE]

enrichedCandidates(cands, resp, t) ==
  LET items == [k \in 1..Len(cands) |-> cands[k].item]
      repos == repoKeys(items)
      after == processResults(items, repos, validBatch(repos), resp, t)
  IN  [k \in 1..Len(cands) |-> [cands[k] EXCEPT !.item = after[k]]]

\* "Update index with enriched items": listEntry.items[findIndex(url)] = item
RECURSIVE writeBack(_, _)
writeBack(ls, cands) ==
  IF cands = <<>> THEN ls
  ELSE LET c == Head(cands)
           next ==
             IF ~hasList(ls, c.sourceList) THEN ls
             ELSE LET e == getList(ls, c.sourceList)
                      hits == {k \in 1..Len(e.items) : e.items[k].url = c.item.url}
                  IN  IF hits = {} THEN ls
                      ELSE LET idx == CHOOSE k \in hits : \A j \in hits : k <= j
                           IN  putList(ls, [e EXCEPT !.items[idx] = c.item])
       IN  writeBack(next, Tail(cands))

\* item.github && "notFound" in item.github
isDead(item) == item.github.kind = "notFound"

\* mutant: the reaper removes nothing
reapedListsKeepDead(ls) == ls

\* "Remove dead items": entry.items without the dead ones
reapedLists(ls) ==
  [k \in 1..Len(ls) |-> [ls[k] EXCEPT !.items = SelectSeq(@, LAMBDA it : ~isDead(it))]]

\* the URLs the reaper adds to deadUrls
reapedUrls(ls) ==
  UNION {{ls[k].items[j].url : j \in {i \in 1..Len(ls[k].items) : isDead(ls[k].items[i])}}
         : k \in 1..Len(ls)}

\* mutant: the reaper starts from an empty blocklist
blocklistOnlyReaped(dead, ls) == reapedUrls(ls)

\* deadUrls after the reaper's deadUrls.add(item.url)
blocklistAfterReap(dead, ls) == dead \cup reapedUrls(ls)

\* mutant: entries preserved by merge mode are not counted
itemCountOfProcessed(ls) ==
  LET Sum[k \in 0..Len(ls)] ==
        IF k = 0 THEN 0
        ELSE Sum[k-1] + (IF ls[k].repo \in SeqToSet(lists) THEN Len(ls[k].items) ELSE 0)
  IN  Sum[Len(ls)]

\* Object.values(index.lists).reduce((sum, l) => sum + l.items.length, 0)
itemCountOf(ls) ==
  LET Sum[k \in 0..Len(ls)] == IF k = 0 THEN 0 ELSE Sum[k-1] + Len(ls[k].items)
  IN  Sum[Len(ls)]

\* order of two URL strings
urlLess(a, b) ==
  LET rank(h) == IF h = "example.com" THEN 1 ELSE 2
  IN  \/ rank(a.host) < rank(b.host)
      \/ /\ a.host = b.host
         /\ \/ StringGreater(b.owner, a.owner)
            \/ a.owner = b.owner /\ StringGreater(b.repo, a.repo)

\* Array.from(deadUrls).sort()
RECURSIVE deadUrlsList(_)
deadUrlsList(dead) ==
  IF dead = {} THEN <<>>
  ELSE LET u == CHOOSE x \in dead : \A y \in dead \ {x} : urlLess(x, y)
       IN  <<u>> \o deadUrlsList(dead \ {u})

-----------------------------------------------------------------------------
(* Spec: runs of scripts/build-items.ts against a changing upstream        *)

ItemAX == Item("n1", UrlAX, "d1", NoGithub, Undefined)
ItemAXRenamed == Item("n2", UrlAX, "d1", NoGithub, Undefined)
ItemAY == Item("n1", UrlAY, "d1", NoGithub, Undefined)

\* what parseReadme makes of the READMEs a source can have
ParsedReadmes(s) ==
  IF s = "s1" THEN {<<ItemAX, ItemAY>>, <<ItemAX, ItemAXRenamed>>}
  ELSE {<<ItemAX>>, <<ItemAY>>}

\* the READMEs at the time of the first run
FirstReadmes == [s \in Sources |-> IF s = "s1" THEN <<ItemAX, ItemAY>> ELSE <<ItemAX>>]

\* the CLI selections: all lists, or the first list by the repo filter
Selections ==
  {[lists |-> Registry, isFiltering |-> FALSE],
   [lists |-> <<"s1">>, isFiltering |-> TRUE]}

\* the READMEs a first run may meet: s1 may list one URL under two names
InitialReadmes ==
  {FirstReadmes, [FirstReadmes EXCEPT !["s1"] = <<ItemAX, ItemAXRenamed>>]}

NoReadme == [ok |-> FALSE, items |-> <<>>]
NoWrites == [index |-> FALSE, deadUrls |-> FALSE]

\* the per-run variables before the run has started
RunReset ==
  /\ existingIndex = NoIndex
  /\ lists = <<>> /\ isFiltering = FALSE
  /\ listMetadata = [s \in Sources |-> RemoteAbsent]
  /\ staleLists = <<>> /\ freshLists = <<>>
  /\ index = NoIndex
  /\ readmeCache = [s \in Sources |-> NoReadme]
  /\ fetchFailedRepos = {}
  /\ failedLists = <<>> /\ attempt = 1
  /\ deadUrls = {}
  /\ diffLog = {} /\ loadedDead = {} /\ reapedNow = {} /\ writes = NoWrites

PipeInit ==
  /\ run = 1 /\ pc = "start" /\ clock = 2
  /\ token \in BOOLEAN
  /\ docs \in InitialReadmes
  /\ pushed = [s \in Sources |-> 0]
  /\ gone \in {{}, {<<NameA, NameX>>}}
  /\ faults = 0 /\ changes = 0
  /\ diskIndex = NoIndex /\ diskDead = <<>>
  /\ reapedBefore = {}
  /\ RunReset

\* argument handling and the loading of items.json.gz and deadUrls.json
LoadInputs ==
  /\ pc = "start"
  /\ \E sel \in Selections :
       /\ lists' = sel.lists
       /\ isFiltering' = sel.isFiltering
  /\ existingIndex' = diskIndex
  /\ deadUrls' = SeqToSet(diskDead)
  /\ loadedDead' = SeqToSet(diskDead)
  /\ pc' = "probe"
  /\ UNCHANGED <<run, clock, worldVars, diskVars, listMetadata, staleLists,
                 freshLists, index, readmeCache, fetchFailedRepos, failedLists,
                 attempt, diffLog, reapedBefore, reapedNow, writes>>
  /\ UNCHANGED <<dVars, fVars, eVars, lVars, hVars, rVars, qVars, kVars, wVars, xVars>>

\* batchQueryListRepos when every batch is answered: the selected lists
\* resolve to their pushedAt; without token the map is empty
metadataResolved ==
  [s \in Sources |-> IF token /\ s \in SeqToSet(lists)
                     THEN RemoteAt(GitHubDateTime(pushed[s]))
                     ELSE RemoteAbsent]

\* batchQueryListRepos when the batch fails (HTTP error, errors without
\* data, exception): results.set(repo, null) for the batch
metadataFailed ==
  [s \in Sources |-> IF s \in SeqToSet(lists) THEN RemoteNull ELSE RemoteAbsent]

\* the freshness query and the stale / fresh classification
QueryFreshness ==
  /\ pc = "probe"
  /\ \E failed \in {b \in BOOLEAN : b => token /\ faults < MaxFaults} :
       LET meta == IF failed THEN metadataFailed ELSE metadataResolved
       IN  /\ listMetadata' = meta
           /\ faults' = IF failed THEN faults + 1 ELSE faults
           /\ staleLists' = SelectSeq(lists, LAMBDA r : isStale(cachedOf(existingIndex, r), meta[r]))
           /\ freshLists' = SelectSeq(lists, LAMBDA r : ~isStale(cachedOf(existingIndex, r), meta[r]))
  /\ pc' = "fetch"
  /\ UNCHANGED <<run, clock, token, docs, pushed, gone, changes, diskVars,
                 existingIndex, lists,
                 isFiltering, index, readmeCache, fetchFailedRepos,
                 failedLists, attempt, deadUrls, ghostVars>>
  /\ UNCHANGED <<dVars, fVars, eVars, lVars, hVars, rVars, qVars, kVars, wVars, xVars>>

\* "Fetch all READMEs in parallel batches"
FetchReadmes ==
  /\ pc = "fetch"
  /\ \E missed \in SUBSET SeqToSet(staleLists) :
       /\ faults + Cardinality(missed) <= MaxFaults
       /\ faults' = faults + Cardinality(missed)
       /\ readmeCache' = [s \in Sources |->
                            IF s \in SeqToSet(staleLists) \ missed
                            THEN [ok |-> TRUE, items |-> docs[s]]
                            ELSE NoReadme]
       /\ fetchFailedRepos' = missed
  /\ pc' = "process"
  /\ UNCHANGED <<run, clock, token, docs, pushed, gone, changes, diskVars, existingIndex, lists,
                 isFiltering,
                 listMetadata, staleLists, freshLists, index, failedLists,
                 attempt, deadUrls, ghostVars>>
  /\ UNCHANGED <<dVars, fVars, eVars, lVars, hVars, rVars, qVars, kVars, wVars, xVars>>

\* "Process only stale lists using cached READMEs"
ProcessStale ==
  /\ pc = "process"
  /\ \E throws \in SUBSET {s \in SeqToSet(staleLists) : readmeCache[s].ok} :
       LET res == mainPass([index |-> index, failed |-> <<>>, log |-> diffLog,
                            pass |-> 0],
                           staleLists, readmeCache, throws, existingIndex,
                           listMetadata, deadUrls, clock)
       IN  /\ faults + Cardinality(throws) <= MaxFaults
           /\ faults' = faults + Cardinality(throws)
           /\ index' = res.index
           /\ failedLists' = res.failed
           /\ diffLog' = res.log
  /\ attempt' = 1
  /\ pc' = "retry"
  /\ UNCHANGED <<run, clock, token, docs, pushed, gone, changes, diskVars, existingIndex, lists,
                 isFiltering,
                 listMetadata, staleLists, freshLists, readmeCache,
                 fetchFailedRepos, deadUrls, loadedDead, reapedBefore, reapedNow,
                 writes>>
  /\ UNCHANGED <<dVars, fVars, eVars, lVars, hVars, rVars, qVars, kVars, wVars, xVars>>

\* passes of "Deferred retry passes (up to 3)"
MaxRetryPasses == 3

\* one retry pass: attempt <= 3 && failedLists.length > 0
RetryFailed ==
  /\ pc = "retry"
  /\ attempt <= MaxRetryPasses /\ failedLists # <<>>
  /\ \E outcome \in [Sources -> ListOutcomes] :
       /\ \A s \in Sources \ SeqToSet(failedLists) : outcome[s] = "ok"
       /\ LET res == retryPass([index |-> index, failed |-> <<>>, log |-> diffLog,
                                pass |-> attempt],
                               failedLists, outcome, docs, existingIndex,
                               listMetadata, deadUrls, clock)
          IN  /\ index' = res.index
              /\ failedLists' = res.failed
              /\ diffLog' = res.log
  /\ attempt' = attempt + 1
  /\ UNCHANGED <<run, pc, clock, worldVars, diskVars, existingIndex, lists,
                 isFiltering,
                 listMetadata, staleLists, freshLists, readmeCache,
                 fetchFailedRepos, deadUrls, loadedDead, reapedBefore, reapedNow,
                 writes>>
  /\ UNCHANGED <<dVars, fVars, eVars, lVars, hVars, rVars, qVars, kVars, wVars, xVars>>

\* the retry loop is left; fresh lists are copied; merge mode
CopyAndMerge ==
  /\ pc = "retry"
  /\ ~(attempt <= MaxRetryPasses /\ failedLists # <<>>)
  /\ LET copied == copyFresh(index, freshLists, existingIndex)
     IN  index' = IF isFiltering /\ existingIndex.exists
                  THEN mergePreserved(copied, existingIndex.lists)
                  ELSE copied
  /\ pc' = "enrich"
  /\ UNCHANGED <<run, clock, worldVars, diskVars, existingIndex, lists,
                 isFiltering,
                 listMetadata, staleLists, freshLists, readmeCache,
                 fetchFailedRepos, failedLists, attempt, deadUrls, ghostVars>>
  /\ UNCHANGED <<dVars, fVars, eVars, lVars, hVars, rVars, qVars, kVars, wVars, xVars>>

\* batchEnrichItems(itemsToEnrich) and "Update index with enriched items"
EnrichIndex ==
  /\ pc = "enrich"
  /\ LET cands == itemsToEnrich(index.lists, SeqToSet(lists))
         sent == validBatch(repoKeys([k \in 1..Len(cands) |-> cands[k].item]))
     IN  IF cands = <<>> THEN index' = index /\ faults' = faults
         ELSE IF ~token
         THEN index' = [index EXCEPT !.lists = writeBack(@, cands)] /\ faults' = faults
         ELSE \E lost \in SUBSET (1..Len(sent)) :
                /\ faults + Cardinality(lost) <= MaxFaults
                /\ faults' = faults + Cardinality(lost)
                /\ index' = [index EXCEPT !.lists =
                     writeBack(@, enrichedCandidates(cands, providerAnswer(sent, lost), clock))]
  /\ pc' = "reap"
  /\ UNCHANGED <<run, clock, token, docs, pushed, gone, changes, diskVars,
                 existingIndex, lists,
                 isFiltering, listMetadata, staleLists, freshLists,
                 readmeCache, fetchFailedRepos, failedLists, attempt, deadUrls,
                 ghostVars>>
  /\ UNCHANGED <<dVars, fVars, eVars, lVars, hVars, rVars, qVars, kVars, wVars, xVars>>

\* "Remove dead items", "Count total items", and the two writes
ReapAndWrite ==
  /\ pc = "reap"
  /\ LET reaped == reapedLists(index.lists)
         dead == blocklistAfterReap(deadUrls, index.lists)
         final == [exists |-> TRUE, listCount |-> index.listCount,
                   itemCount |-> itemCountOf(reaped),
                   lists |-> reaped]
     IN  /\ index' = final
         /\ deadUrls' = dead
         /\ reapedNow' = reapedUrls(index.lists)
         /\ diskIndex' = final
         /\ diskDead' = deadUrlsList(dead)
  /\ writes' = [index |-> TRUE, deadUrls |-> TRUE]
  /\ pc' = "done"
  /\ UNCHANGED <<run, clock, worldVars, existingIndex, lists,
                 isFiltering, listMetadata,
                 staleLists, freshLists, readmeCache, fetchFailedRepos,
                 failedLists, attempt, diffLog, loadedDead, reapedBefore>>
  /\ UNCHANGED <<dVars, fVars, eVars, lVars, hVars, rVars, qVars, kVars, wVars, xVars>>

\* time between the end of a run and the start of the next, in half seconds
RunGap == 2

\* between two runs: time passes, and upstream a source may be pushed to
NextRun ==
  /\ pc = "done" /\ run < MaxRuns
  /\ run' = run + 1
  /\ clock' = clock + RunGap
  /\ \/ UNCHANGED <<docs, pushed, gone, changes>>
     \/ /\ changes < MaxChanges
        /\ changes' = changes + 1
        /\ \/ \E s \in Sources : \E d \in ParsedReadmes(s) \ {docs[s]} :
                /\ docs' = [docs EXCEPT ![s] = d]
                /\ pushed' = [pushed EXCEPT ![s] = clock + 1]
                /\ gone' = gone
           \/ \E r \in {<<NameA, NameX>>, <<NameA, NameY>>} \ gone :
                /\ gone' = gone \cup {r}
                /\ UNCHANGED <<docs, pushed>>
  /\ reapedBefore' = reapedBefore \cup reapedNow
  /\ pc' = "start"
  /\ existingIndex' = NoIndex
  /\ lists' = <<>> /\ isFiltering' = FALSE
  /\ listMetadata' = [s \in Sources |-> RemoteAbsent]
  /\ staleLists' = <<>> /\ freshLists' = <<>>
  /\ index' = NoIndex
  /\ readmeCache' = [s \in Sources |-> NoReadme]
  /\ fetchFailedRepos' = {}
  /\ failedLists' = <<>> /\ attempt' = 1
  /\ deadUrls' = {}
  /\ diffLog' = {} /\ loadedDead' = {} /\ reapedNow' = {} /\ writes' = NoWrites
  /\ UNCHANGED <<token, faults, diskVars>>
  /\ UNCHANGED <<dVars, fVars, eVars, lVars, hVars, rVars, qVars, kVars, wVars, xVars>>

Next ==
  \/ LoadInputs
  \/ QueryFreshness
  \/ FetchReadmes
  \/ ProcessStale
  \/ RetryFailed
  \/ CopyAndMerge
  \/ EnrichIndex
  \/ ReapAndWrite
  \/ NextRun

\* the pipeline is not running
PipeIdle ==
  /\ run = 0 /\ pc = "off" /\ clock = 0 /\ token = FALSE
  /\ docs = [s \in Sources |-> <<>>] /\ pushed = [s \in Sources |-> 0]
  /\ gone = {} /\ faults = 0 /\ changes = 0
  /\ diskIndex = NoIndex /\ diskDead = <<>>
  /\ reapedBefore = {}
  /\ RunReset

-----------------------------------------------------------------------------
(* scripts/build-items.ts : fetching the READMEs (SpecFetch)               *)

\* CONFIG.build.fetchConcurrency, scaled down
CONCURRENCY == 2

\* most stale lists of a run
MaxStale == 4

branches == <<"main", "master">>
filenames == <<"README.md", "readme.md">>

\* the URLs fetchReadme tries for one repo, in order
Combinations == Len(branches) * Len(filenames)

\* mutant: every remaining list in one batch
batchOfRest(q, i) == SubSeq(q, i + 1, Len(q))

\* staleLists.slice(i, i + CONCURRENCY)
batchOf(q, i) == SubSeq(q, i + 1, Min(i + CONCURRENCY, Len(q)))

\* no fetchReadme of the batch has ended
NoneTried == [r \in 1..MaxStale |-> [urls |-> 0, how |-> "none"]]

FetchInit ==
  /\ hPc = "loop" /\ hPass = 0 /\ hI = 0
  /\ \E n \in 1..MaxStale : hQueue = [k \in 1..n |-> k]
  /\ inFlight = {} /\ hFetched = {} /\ hFailed = {} /\ hTried = NoneTried

\* batch.map(async ...): every promise of the batch runs to its first await,
\* the fetch of the first URL
startBatch ==
  /\ hPc = "loop" /\ hI < Len(hQueue)
  /\ inFlight' = {<<r, 1>> : r \in SeqToSet(batchOf(hQueue, hI))}
  /\ hPc' = "await"
  /\ UNCHANGED <<hPass, hQueue, hI, hFetched, hFailed, hTried>>
  /\ UNCHANGED <<dVars, fVars, eVars, pVars, lVars, rVars, qVars, kVars, wVars, xVars>>

\* res.ok: fetchReadme returns the text
readmeFetched ==
  /\ hPc = "await"
  /\ \E req \in inFlight :
       /\ inFlight' = inFlight \ {req}
       /\ hFetched' = hFetched \cup {req[1]}
       /\ hTried' = [hTried EXCEPT ![req[1]] = [urls |-> req[2], how |-> "text"]]
  /\ UNCHANGED <<hPc, hPass, hQueue, hI, hFailed>>
  /\ UNCHANGED <<dVars, fVars, eVars, pVars, lVars, rVars, qVars, kVars, wVars, xVars>>

\* the request failed, timed out or was answered with an error status:
\* fetchReadme goes on to the next URL, or returns null after the last
requestFailed ==
  /\ hPc = "await"
  /\ \E req \in inFlight :
       /\ inFlight' = (inFlight \ {req}) \cup
                      (IF req[2] < Combinations THEN {<<req[1], req[2] + 1>>} ELSE {})
       /\ hFailed' = IF req[2] < Combinations THEN hFailed ELSE hFailed \cup {req[1]}
       /\ hTried' = IF req[2] < Combinations THEN hTried
                    ELSE [hTried EXCEPT ![req[1]] = [urls |-> req[2], how |-> "null"]]
  /\ UNCHANGED <<hPc, hPass, hQueue, hI, hFetched>>
  /\ UNCHANGED <<dVars, fVars, eVars, pVars, lVars, rVars, qVars, kVars, wVars, xVars>>

\* res.ok and res.text() resolves to "": fetchReadme returns the empty
\* string, and if (readme) takes the else branch
emptyReadme ==
  /\ hPc = "await"
  /\ \E req \in inFlight :
       /\ inFlight' = inFlight \ {req}
       /\ hFailed' = hFailed \cup {req[1]}
       /\ hTried' = [hTried EXCEPT ![req[1]] = [urls |-> req[2], how |-> "empty"]]
  /\ UNCHANGED <<hPc, hPass, hQueue, hI, hFetched>>
  /\ UNCHANGED <<dVars, fVars, eVars, pVars, lVars, rVars, qVars, kVars, wVars, xVars>>

\* res.ok and the promise of res.text() rejects (the connection breaks or
\* the timeout fires while the body is read): "return res.text()" hands
\* the promise out of the try block, fetchReadme rejects, and the catch of
\* the caller marks the repo
bodyRejected ==
  /\ hPc = "await"
  /\ \E req \in inFlight :
       /\ inFlight' = inFlight \ {req}
       /\ hFailed' = hFailed \cup {req[1]}
       /\ hTried' = [hTried EXCEPT ![req[1]] = [urls |-> req[2], how |-> "rejected"]]
  /\ UNCHANGED <<hPc, hPass, hQueue, hI, hFetched>>
  /\ UNCHANGED <<dVars, fVars, eVars, pVars, lVars, rVars, qVars, kVars, wVars, xVars>>

\* await Promise.all(promises); i += CONCURRENCY
batchSettled ==
  /\ hPc = "await" /\ inFlight = {}
  /\ hI' = hI + CONCURRENCY
  /\ hPc' = "loop"
  /\ hTried' = NoneTried
  /\ UNCHANGED <<hPass, hQueue, inFlight, hFetched, hFailed>>
  /\ UNCHANGED <<dVars, fVars, eVars, pVars, lVars, rVars, qVars, kVars, wVars, xVars>>

\* The lists a pass leaves in failedLists.  Main pass: lists whose README
\* was fetched and whose processing threw.  Retry pass: lists whose README
\* is still missing, and lists whose processing threw again.
leftFailing(threw) ==
  SelectSeq(hQueue, LAMBDA r : IF hPass = 0 THEN r \in hFetched /\ r \in threw
                               ELSE r \notin hFetched \/ r \in threw)

\* the lists have been processed and a retry pass starts
startRetryPass ==
  /\ hPc = "loop" /\ hI >= Len(hQueue)
  /\ hPass < MaxRetryPasses
  /\ \E threw \in SUBSET SeqToSet(hQueue) :
       /\ leftFailing(threw) # <<>>
       /\ hQueue' = leftFailing(threw)
  /\ hPass' = hPass + 1
  /\ hI' = 0
  /\ hFetched' = {} /\ hFailed' = {} /\ hTried' = NoneTried
  /\ UNCHANGED <<hPc, inFlight>>
  /\ UNCHANGED <<dVars, fVars, eVars, pVars, lVars, rVars, qVars, kVars, wVars, xVars>>

\* the lists have been processed and no retry pass follows
fetchingOver ==
  /\ hPc = "loop" /\ hI >= Len(hQueue)
  /\ \E threw \in SUBSET SeqToSet(hQueue) :
       /\ hPass < MaxRetryPasses => leftFailing(threw) = <<>>
       /\ hQueue' = leftFailing(threw)
  /\ hPc' = "done"
  /\ UNCHANGED <<hPass, hI, inFlight, hFetched, hFailed, hTried>>
  /\ UNCHANGED <<dVars, fVars, eVars, pVars, lVars, rVars, qVars, kVars, wVars, xVars>>

FetchNext ==
  \/ startBatch
  \/ readmeFetched
  \/ requestFailed
  \/ emptyReadme
  \/ bodyRejected
  \/ batchSettled
  \/ startRetryPass
  \/ fetchingOver

FetchIdle ==
  /\ hPc = "off" /\ hPass = 0 /\ hQueue = <<>> /\ hI = 0
  /\ inFlight = {} /\ hFetched = {} /\ hFailed = {} /\ hTried = NoneTried

-----------------------------------------------------------------------------
(* scripts/build-items.ts : the rolling re-check, run after run (SpecRotate) *)

UrlXA == Url("github.com", NameX, NameA, "")
UrlYA == Url("github.com", NameY, NameA, "")

\* the URLs of the items the snapshot starts with, in the order of the index
RotUrls == <<UrlAX, UrlAY, UrlXA, UrlYA>>

\* an item as an earlier run left it: resolved, enriched at instant t
resolvedItem(url, t) ==
  Item("n1", url, "d1",
       GitHubMetadata(WorldStars(extractGitHubRepo(url)),
                      WorldPushedAt(extractGitHubRepo(url))), t)

\* the lastEnriched values of a snapshot
stampsOf(ls) ==
  UNION {{ls[k].items[j].lastEnriched : j \in 1..Len(ls[k].items)} : k \in 1..Len(ls)}

\* new Date().toISOString() of a run that starts after every earlier one
\* has ended
nowAfter(ls) == 1 + Max(0, CHOOSE t \in stampsOf(ls) \cup {0} :
                             \A x \in stampsOf(ls) : x <= t)

\* The rolling re-check reads lastEnriched through the comparison of the
\* sort only: the instants are kept as their ranks.
rankStamps(ls) ==
  LET rank(t) == Cardinality({x \in stampsOf(ls) : x <= t})
  IN  [k \in 1..Len(ls) |->
         [ls[k] EXCEPT !.items =
            [j \in 1..Len(ls[k].items) |->
               [ls[k].items[j] EXCEPT !.lastEnriched = rank(ls[k].items[j].lastEnriched)]]]]

\* a snapshot of two sources whose items were all resolved by earlier runs,
\* in any order of their lastEnriched
RotInit ==
  /\ rPc = "select"
  /\ rToken = FALSE
  /\ \E st \in [1..Len(RotUrls) -> 1..Len(RotUrls)] :
       LET ls == <<ListEntry("s1", 1, 1, <<resolvedItem(RotUrls[1], st[1]),
                                            resolvedItem(RotUrls[2], st[2])>>),
                   ListEntry("s2", 1, 1, <<resolvedItem(RotUrls[3], st[3]),
                                            resolvedItem(RotUrls[4], st[4])>>)>>
       IN  /\ rankStamps(ls) = ls
           /\ rIndex = ls
  /\ rCands = <<>>
  /\ rVerified = {}
  /\ rSeen = {}

\* a run starts, with or without GITHUB_TOKEN, and selects its candidates
RotSelect ==
  /\ rPc = "select"
  /\ \E tok \in BOOLEAN : rToken' = tok
  /\ rCands' = itemsToEnrich(rIndex, Sources)
  /\ rVerified' = {}
  /\ rPc' = "enrich"
  /\ UNCHANGED <<rIndex, rSeen>>
  /\ UNCHANGED <<dVars, fVars, eVars, pVars, lVars, hVars, qVars, kVars, wVars, xVars>>

\* batchEnrichItems and the write-back: the provider answers each entity
\* with data, with NOT_FOUND, or with null and no error
RotEnrich ==
  /\ rPc = "enrich"
  /\ LET sent == validBatch(repoKeys([k \in 1..Len(rCands) |-> rCands[k].item]))
         t == nowAfter(rIndex)
     IN  IF rCands = <<>> \/ ~rToken
         THEN /\ rIndex' = writeBack(rIndex, rCands)
              /\ rVerified' = {}
         ELSE \E slots \in [1..Len(sent) -> {"data", "notFound", "nullNoError"}] :
                LET after == enrichedCandidates(rCands, [slots |-> slots, lowQuota |-> FALSE], t)
                IN  /\ rIndex' = writeBack(rIndex, after)
                    /\ rVerified' = {after[k].item.url :
                                       k \in {j \in 1..Len(after) : after[j].item.lastEnriched = t}}
  /\ rSeen' = rSeen \cup rVerified'
  /\ rPc' = "write"
  /\ UNCHANGED <<rToken, rCands>>
  /\ UNCHANGED <<dVars, fVars, eVars, pVars, lVars, hVars, qVars, kVars, wVars, xVars>>

\* the reaper and the write of items.json.gz, which the next run loads
RotWrite ==
  /\ rPc = "write"
  /\ rIndex' = rankStamps(reapedLists(rIndex))
  /\ rPc' = "select"
  /\ UNCHANGED <<rToken, rCands, rVerified, rSeen>>
  /\ UNCHANGED <<dVars, fVars, eVars, pVars, lVars, hVars, qVars, kVars, wVars, xVars>>

RotNext ==
  \/ RotSelect
  \/ RotEnrich
  \/ RotWrite

RotIdle ==
  /\ rPc = "off" /\ rToken = FALSE /\ rIndex = <<>> /\ rCands = <<>>
  /\ rVerified = {} /\ rSeen = {}

-----------------------------------------------------------------------------
(* src/enricher.ts : batchQueryListRepos (SpecProbe)                       *)

\* ids of list repos as repo.split("/") yields them: [owner, name]; the
\* name of the last one holds a double quote
ProbeIds == <<<<NameA, NameX>>, <<NameA, NameY>>, <<NameX, NameA>>, <<NameA, NameQuoted>>>>

\* most ids passed to batchQueryListRepos
MaxProbe == 3

\* the repos arguments: lists of distinct ids
ProbeInputs ==
  {q \in UNION {[1..n -> SeqToSet(ProbeIds)] : n \in 1..MaxProbe} :
     \A i, j \in 1..Len(q) : i # j => q[i] # q[j]}

\* new Map()
NoResults == [id \in SeqToSet(ProbeIds) |-> RemoteAbsent]

\* repos.slice(i, i + BATCH_SIZE)
probeBatch == SubSeq(qRepos, qI + 1, Min(qI + BatchSize, Len(qRepos)))

\* batch.map((repo, idx) => `repo${idx}: repository(owner: "${owner}",
\* name: "${name}")`): the ids the query of the batch embeds
embeddedIn(batch) == SeqToSet(batch)

\* mutant: a failed batch leaves the map as it was
failBatchNothing(results, batch) == results

\* for (const repo of batch) results.set(repo, null)
failBatch(results, batch) ==
  [id \in DOMAIN results |-> IF id \in SeqToSet(batch) THEN RemoteNull ELSE results[id]]

\* batch.forEach((repo, idx) => data?.pushedAt ? set(repo, {pushedAt}) :
\* set(repo, null)); a later slot of the same id overwrites an earlier one
extractResults(results, batch, slots) ==
  [id \in DOMAIN results |->
     LET ks == {k \in 1..Len(batch) : batch[k] = id}
     IN  IF ks = {} THEN results[id]
         ELSE LET k == CHOOSE x \in ks : \A y \in ks : y <= x
              IN  IF slots[k] = "data"
                  THEN RemoteAt(GitHubDateTime(WorldPushedAt(id)))
                  ELSE RemoteNull]

ProbeInit ==
  /\ qPc = "start"
  /\ qToken \in BOOLEAN
  /\ qRepos \in ProbeInputs
  /\ qI = 0
  /\ qResults = NoResults
  /\ qEmbedded = {}
  /\ qLog = <<>>

\* if (!token) return results
probeNoToken ==
  /\ qPc = "start" /\ ~qToken
  /\ qPc' = "done"
  /\ UNCHANGED <<qToken, qRepos, qI, qResults, qEmbedded, qLog>>
  /\ UNCHANGED <<dVars, fVars, eVars, pVars, lVars, hVars, rVars, kVars, wVars, xVars>>

probeEnterLoop ==
  /\ qPc = "start" /\ qToken
  /\ qPc' = "loop"
  /\ UNCHANGED <<qToken, qRepos, qI, qResults, qEmbedded, qLog>>
  /\ UNCHANGED <<dVars, fVars, eVars, pVars, lVars, hVars, rVars, kVars, wVars, xVars>>

\* !response.ok: the ids of the batch are set to null
probeHttpError ==
  /\ qPc = "loop" /\ qI < Len(qRepos)
  /\ qEmbedded' = qEmbedded \cup embeddedIn(probeBatch)
  /\ qResults' = failBatch(qResults, probeBatch)
  /\ qLog' = Append(qLog, [first |-> qI, kind |-> "httpError", slots |-> <<>>])
  /\ qI' = qI + BatchSize
  /\ UNCHANGED <<qPc, qToken, qRepos>>
  /\ UNCHANGED <<dVars, fVars, eVars, pVars, lVars, hVars, rVars, kVars, wVars, xVars>>

\* json.errors && !json.data: the ids of the batch are set to null
probeErrorsNoData ==
  /\ qPc = "loop" /\ qI < Len(qRepos)
  /\ qEmbedded' = qEmbedded \cup embeddedIn(probeBatch)
  /\ qResults' = failBatch(qResults, probeBatch)
  /\ qLog' = Append(qLog, [first |-> qI, kind |-> "errorsNoData", slots |-> <<>>])
  /\ qI' = qI + BatchSize
  /\ UNCHANGED <<qPc, qToken, qRepos>>
  /\ UNCHANGED <<dVars, fVars, eVars, pVars, lVars, hVars, rVars, kVars, wVars, xVars>>

\* catch: fetch rejected (network error, timeout) or response.json() threw
probeThrew ==
  /\ qPc = "loop" /\ qI < Len(qRepos)
  /\ qEmbedded' = qEmbedded \cup embeddedIn(probeBatch)
  /\ qResults' = failBatch(qResults, probeBatch)
  /\ qLog' = Append(qLog, [first |-> qI, kind |-> "threw", slots |-> <<>>])
  /\ qI' = qI + BatchSize
  /\ UNCHANGED <<qPc, qToken, qRepos>>
  /\ UNCHANGED <<dVars, fVars, eVars, pVars, lVars, hVars, rVars, kVars, wVars, xVars>>

\* the response has data: each slot holds a pushedAt, or is null
probeAnswered ==
  /\ qPc = "loop" /\ qI < Len(qRepos)
  /\ \E slots \in [1..Len(probeBatch) -> {"data", "null"}] :
       /\ qResults' = extractResults(qResults, probeBatch, slots)
       /\ qLog' = Append(qLog, [first |-> qI, kind |-> "answered", slots |-> slots])
  /\ qEmbedded' = qEmbedded \cup embeddedIn(probeBatch)
  /\ qI' = qI + BatchSize
  /\ UNCHANGED <<qPc, qToken, qRepos>>
  /\ UNCHANGED <<dVars, fVars, eVars, pVars, lVars, hVars, rVars, kVars, wVars, xVars>>

\* return results
probeReturn ==
  /\ qPc = "loop" /\ qI >= Len(qRepos)
  /\ qPc' = "done"
  /\ UNCHANGED <<qToken, qRepos, qI, qResults, qEmbedded, qLog>>
  /\ UNCHANGED <<dVars, fVars, eVars, pVars, lVars, hVars, rVars, kVars, wVars, xVars>>

ProbeNext ==
  \/ probeNoToken
  \/ probeEnterLoop
  \/ probeHttpError
  \/ probeErrorsNoData
  \/ probeThrew
  \/ probeAnswered
  \/ probeReturn

ProbeIdle ==
  /\ qPc = "off" /\ qToken = FALSE /\ qRepos = <<>> /\ qI = 0
  /\ qResults = NoResults /\ qEmbedded = {} /\ qLog = <<>>

-----------------------------------------------------------------------------
(* scripts/build-items.ts : one source, build runs and upstream pushes     *)
(* (SpecRace)                                                              *)

\* last instant of the clock, in half seconds
MaxRaceTick == 6

\* most upstream pushes after the first
MaxPushes == 2

RaceInit ==
  /\ kPc = "idle"
  /\ kClock = 0
  /\ kPushedAt = 0
  /\ kVersion = 1
  /\ kFetched = 0
  /\ kCached = NoEntry
  /\ kClass = "none"
  /\ kMissed = FALSE

\* time passes
raceTick ==
  /\ kClock < MaxRaceTick
  /\ kClock' = kClock + 1
  /\ UNCHANGED <<kPc, kPushedAt, kVersion, kFetched, kCached, kClass, kMissed>>
  /\ UNCHANGED <<dVars, fVars, eVars, pVars, lVars, hVars, rVars, qVars, wVars, xVars>>

\* upstream: the README of the source changes
racePush ==
  /\ kVersion <= MaxPushes
  /\ kVersion' = kVersion + 1
  /\ kPushedAt' = kClock
  /\ UNCHANGED <<kPc, kClock, kFetched, kCached, kClass, kMissed>>
  /\ UNCHANGED <<dVars, fVars, eVars, pVars, lVars, hVars, rVars, qVars, wVars, xVars>>

\* a run starts: the freshness query, resolved or not, and the
\* classification; a fresh source keeps its entry and the run is over for it
raceClassify ==
  /\ kPc = "idle"
  /\ \E resolved \in BOOLEAN :
       LET remote == IF resolved THEN RemoteAt(GitHubDateTime(kPushedAt)) ELSE RemoteNull
           stale == isStale(kCached, remote)
       IN  /\ kClass' = IF stale THEN "stale" ELSE "fresh"
           /\ kPc' = IF stale THEN "fetch" ELSE "idle"
           /\ kMissed' = (kMissed \/ (~stale /\ kFetched < kVersion))
  /\ UNCHANGED <<kClock, kPushedAt, kVersion, kFetched, kCached>>
  /\ UNCHANGED <<dVars, fVars, eVars, pVars, lVars, hVars, rVars, qVars, wVars, xVars>>

\* the fetch stage obtains the README as it is now
raceFetched ==
  /\ kPc = "fetch"
  /\ kFetched' = kVersion
  /\ kPc' = "process"
  /\ UNCHANGED <<kClock, kPushedAt, kVersion, kCached, kClass, kMissed>>
  /\ UNCHANGED <<dVars, fVars, eVars, pVars, lVars, hVars, rVars, qVars, wVars, xVars>>

\* the fetch fails: the entry is written as it was loaded (a filtered run)
\* or is not written (a full run)
raceFetchFailed ==
  /\ kPc = "fetch"
  /\ kCached' \in {kCached, NoEntry}
  /\ kPc' = "idle"
  /\ UNCHANGED <<kClock, kPushedAt, kVersion, kFetched, kClass, kMissed>>
  /\ UNCHANGED <<dVars, fVars, eVars, pVars, lVars, hVars, rVars, qVars, wVars, xVars>>

\* the main pass reaches the source: lastParsed: new Date().toISOString()
raceProcessed ==
  /\ kPc = "process"
  /\ kCached' = [exists |-> TRUE, lastParsed |-> toISOString(kClock)]
  /\ kPc' = "idle"
  /\ UNCHANGED <<kClock, kPushedAt, kVersion, kFetched, kClass, kMissed>>
  /\ UNCHANGED <<dVars, fVars, eVars, pVars, lVars, hVars, rVars, qVars, wVars, xVars>>

RaceNext ==
  \/ raceTick
  \/ racePush
  \/ raceClassify
  \/ raceFetched
  \/ raceFetchFailed
  \/ raceProcessed

RaceIdle ==
  /\ kPc = "off" /\ kClock = 0 /\ kPushedAt = 0 /\ kVersion = 0 /\ kFetched = 0
  /\ kCached = NoEntry /\ kClass = "none" /\ kMissed = FALSE

-----------------------------------------------------------------------------
(* SpecDelay: currentDelay of batchEnrichItems over a list long enough     *)
(* for the loop not to end; the batches themselves are left out            *)

\* calls that fail or report a low quota, over the whole run
MaxSignals == 7

\* answered calls without low-quota report that take the delay from d to
\* baseDelayMs
RECURSIVE stepsToFloor(_)
stepsToFloor(d) ==
  IF d <= baseDelayMs THEN 0 ELSE 1 + stepsToFloor(Max((d * 9) \div 10, baseDelayMs))

\* the longest such descent: from the largest delay the loop sets
DecaySteps == stepsToFloor(maxBackoffMs)

DelayInit ==
  /\ wDelay = baseDelayMs
  /\ wErrors = 0
  /\ wStreak = 0
  /\ wSignals = 0

\* an iteration answered with data, quota not low: "Reset on success",
\* "Gradually speed up"
delaySuccess ==
  /\ wDelay' = delayAfterSuccess(wDelay, FALSE)
  /\ wErrors' = 0
  /\ wStreak' = Min(wStreak + 1, DecaySteps)
  /\ UNCHANGED wSignals
  /\ UNCHANGED <<dVars, fVars, eVars, pVars, lVars, hVars, rVars, qVars, kVars, xVars>>

\* an iteration answered with data and rl.remaining < 500
delayLowQuota ==
  /\ wSignals < MaxSignals
  /\ wDelay' = delayAfterSuccess(wDelay, TRUE)
  /\ wErrors' = 0
  /\ wStreak' = 0
  /\ wSignals' = wSignals + 1
  /\ UNCHANGED <<dVars, fVars, eVars, pVars, lVars, hVars, rVars, qVars, kVars, xVars>>

\* an iteration that fails with "403" / "SecondaryRateLimit"
delayRateLimited ==
  /\ wSignals < MaxSignals
  /\ wErrors' = Min(wErrors + 1, ErrorsSaturation)
  /\ wDelay' = backoffMs(wErrors')
  /\ wStreak' = 0
  /\ wSignals' = wSignals + 1
  /\ UNCHANGED <<dVars, fVars, eVars, pVars, lVars, hVars, rVars, qVars, kVars, xVars>>

\* an iteration that fails otherwise
delayError ==
  /\ wSignals < MaxSignals
  /\ wErrors' = Min(wErrors + 1, ErrorsSaturation)
  /\ wDelay' = IF wErrors' >= 3 THEN Min(wDelay * 2, maxDelayMs) ELSE wDelay
  /\ wStreak' = 0
  /\ wSignals' = wSignals + 1
  /\ UNCHANGED <<dVars, fVars, eVars, pVars, lVars, hVars, rVars, qVars, kVars, xVars>>

DelayNext ==
  \/ delaySuccess
  \/ delayLowQuota
  \/ delayRateLimited
  \/ delayError

DelayIdle == wDelay = 0 /\ wErrors = 0 /\ wStreak = 0 /\ wSignals = 0

-----------------------------------------------------------------------------
(* SpecSerial: the batch loop of batchEnrichItems await by await           *)

\* most distinct entities among the candidates
MaxEntities == 5

\* most rate-limit signals of a run
MaxRateLimits == 2

SerialInit ==
  /\ xPc = "top"
  /\ \E n \in 0..MaxEntities : xRepos = [k \in 1..n |-> k]
  /\ xI = 0
  /\ xInFlight = 0
  /\ xCalls = <<>>
  /\ xWaited = FALSE
  /\ xSignals = 0
  /\ xLast = "none"

\* i < repos.length and i = 0: no delay before the first batch
serialFirstBatch ==
  /\ xPc = "top" /\ xI < Len(xRepos) /\ xI = 0
  /\ xPc' = "send"
  /\ xWaited' = FALSE
  /\ UNCHANGED <<xRepos, xI, xInFlight, xCalls, xSignals, xLast>>
  /\ UNCHANGED <<dVars, fVars, eVars, pVars, lVars, hVars, rVars, qVars, kVars, wVars>>

\* i < repos.length and i > 0: await sleep(currentDelay)
serialDelay ==
  /\ xPc = "top" /\ xI < Len(xRepos) /\ xI > 0
  /\ xPc' = "send"
  /\ xWaited' = TRUE
  /\ UNCHANGED <<xRepos, xI, xInFlight, xCalls, xSignals, xLast>>
  /\ UNCHANGED <<dVars, fVars, eVars, pVars, lVars, hVars, rVars, qVars, kVars, wVars>>

\* fetch(CONFIG.github.graphqlEndpoint, ...): the query of the batch is sent
serialSend ==
  /\ xPc = "send"
  /\ xInFlight' = xInFlight + 1
  /\ xCalls' = Append(xCalls, batchAt(xRepos, xI))
  /\ xPc' = "await"
  /\ UNCHANGED <<xRepos, xI, xWaited, xSignals, xLast>>
  /\ UNCHANGED <<dVars, fVars, eVars, pVars, lVars, hVars, rVars, qVars, kVars, wVars>>

\* the awaited call is answered with data and the results are processed
serialAnswered ==
  /\ xPc = "await"
  /\ xInFlight' = xInFlight - 1
  /\ xI' = xI + BatchSize
  /\ xPc' = "top"
  /\ xLast' = "ok"
  /\ UNCHANGED <<xRepos, xCalls, xWaited, xSignals>>
  /\ UNCHANGED <<dVars, fVars, eVars, pVars, lVars, hVars, rVars, qVars, kVars, wVars>>

\* the awaited call ends with "403" / "SecondaryRateLimit": await
\* sleep(backoffMs); i -= batchSize; continue
serialRateLimited ==
  /\ xPc = "await"
  /\ xSignals < MaxRateLimits
  /\ xSignals' = xSignals + 1
  /\ xInFlight' = xInFlight - 1
  /\ xPc' = "top"
  /\ xLast' = "rateLimited"
  /\ UNCHANGED <<xRepos, xI, xCalls, xWaited>>
  /\ UNCHANGED <<dVars, fVars, eVars, pVars, lVars, hVars, rVars, qVars, kVars, wVars>>

\* the awaited call fails otherwise (status, errors without data, network
\* error, timeout): the catch logs and the loop goes on
serialFailed ==
  /\ xPc = "await"
  /\ xInFlight' = xInFlight - 1
  /\ xI' = xI + BatchSize
  /\ xPc' = "top"
  /\ xLast' = "error"
  /\ UNCHANGED <<xRepos, xCalls, xWaited, xSignals>>
  /\ UNCHANGED <<dVars, fVars, eVars, pVars, lVars, hVars, rVars, qVars, kVars, wVars>>

\* i >= repos.length: return items
serialReturn ==
  /\ xPc = "top" /\ xI >= Len(xRepos)
  /\ xPc' = "done"
  /\ UNCHANGED <<xRepos, xI, xInFlight, xCalls, xWaited, xSignals, xLast>>
  /\ UNCHANGED <<dVars, fVars, eVars, pVars, lVars, hVars, rVars, qVars, kVars, wVars>>

SerialNext ==
  \/ serialFirstBatch
  \/ serialDelay
  \/ serialSend
  \/ serialAnswered
  \/ serialRateLimited
  \/ serialFailed
  \/ serialReturn

SerialIdle ==
  /\ xPc = "off" /\ xRepos = <<>> /\ xI = 0 /\ xInFlight = 0
  /\ xCalls = <<>> /\ xWaited = FALSE /\ xSignals = 0 /\ xLast = "none"

-----------------------------------------------------------------------------
(* Specifications                                                          *)

vars == <<dVars, fVars, eVars, pVars, lVars, hVars, rVars, qVars, kVars, wVars, xVars>>

DiffIdle == dPc = "off" /\ dOld = <<>> /\ dNew = <<>> /\ dRes = EmptyDiff
FreshIdle == fPc = "off" /\ fCached = NoEntry /\ fRemote = RemoteAbsent /\ fClass = "none"

DiffStart == DiffInit /\ FreshIdle /\ EnrichIdle /\ PipeIdle /\ LoopIdle /\ FetchIdle /\ RotIdle /\ ProbeIdle /\ RaceIdle /\ DelayIdle /\ SerialIdle
SpecDiff == DiffStart /\ [][DiffNext]_vars

FreshStart == FreshInit /\ DiffIdle /\ EnrichIdle /\ PipeIdle /\ LoopIdle /\ FetchIdle /\ RotIdle /\ ProbeIdle /\ RaceIdle /\ DelayIdle /\ SerialIdle
SpecFresh == FreshStart /\ [][FreshNext]_vars

EnrichStart == EnrichInit /\ DiffIdle /\ FreshIdle /\ PipeIdle /\ LoopIdle /\ FetchIdle /\ RotIdle /\ ProbeIdle /\ RaceIdle /\ DelayIdle /\ SerialIdle
SpecEnrich == EnrichStart /\ [][EnrichNext]_vars

PipeStart == PipeInit /\ DiffIdle /\ FreshIdle /\ EnrichIdle /\ LoopIdle /\ FetchIdle /\ RotIdle /\ ProbeIdle /\ RaceIdle /\ DelayIdle /\ SerialIdle
Spec == PipeStart /\ [][Next]_vars

\* every await of an iteration ends (the call has a timeout, sleep is
\* finite), so the loop keeps taking steps while one is possible
LoopStart == LoopInit /\ DiffIdle /\ FreshIdle /\ EnrichIdle /\ PipeIdle /\ FetchIdle /\ RotIdle /\ ProbeIdle /\ RaceIdle /\ DelayIdle /\ SerialIdle
SpecLoop == LoopStart /\ [][LoopNext]_vars /\ WF_vars(LoopNext)

FetchStart == FetchInit /\ DiffIdle /\ FreshIdle /\ EnrichIdle /\ PipeIdle /\ LoopIdle /\ RotIdle /\ ProbeIdle /\ RaceIdle /\ DelayIdle /\ SerialIdle
SpecFetch == FetchStart /\ [][FetchNext]_vars

RotStart == RotInit /\ DiffIdle /\ FreshIdle /\ EnrichIdle /\ PipeIdle /\ LoopIdle /\ FetchIdle /\ ProbeIdle /\ RaceIdle /\ DelayIdle /\ SerialIdle

\* a step of RotNext takes the run to its next stage, and the last stage
\* to the first stage of the next run
RotStage ==
  rPc' = CASE rPc = "select" -> "enrich"
           [] rPc = "enrich" -> "write"
           [] rPc = "write" -> "select"
           [] OTHER -> rPc

\* Every stage of a run ends (the calls have timeouts, the sleeps are finite,
\* the provider is taken to end its rate-limit signals) and the build is run
\* again and again: the stage keeps advancing.
SpecRotate == RotStart /\ [][RotNext]_vars /\ WF_rPc(RotStage)

ProbeStart == ProbeInit /\ DiffIdle /\ FreshIdle /\ EnrichIdle /\ PipeIdle /\ LoopIdle /\ FetchIdle /\ RotIdle /\ RaceIdle /\ DelayIdle /\ SerialIdle
SpecProbe == ProbeStart /\ [][ProbeNext]_vars

RaceStart == RaceInit /\ DiffIdle /\ FreshIdle /\ EnrichIdle /\ PipeIdle /\ LoopIdle /\ FetchIdle /\ RotIdle /\ ProbeIdle /\ DelayIdle /\ SerialIdle
SpecRace == RaceStart /\ [][RaceNext]_vars

DelayStart == DelayInit /\ DiffIdle /\ FreshIdle /\ EnrichIdle /\ PipeIdle /\ LoopIdle /\ FetchIdle /\ RotIdle /\ ProbeIdle /\ RaceIdle /\ SerialIdle
SpecDelay == DelayStart /\ [][DelayNext]_vars

SerialStart == SerialInit /\ DiffIdle /\ FreshIdle /\ EnrichIdle /\ PipeIdle /\ LoopIdle /\ FetchIdle /\ RotIdle /\ ProbeIdle /\ RaceIdle /\ DelayIdle
SpecSerial == SerialStart /\ [][SerialNext]_vars

-----------------------------------------------------------------------------
(* Claims about diffItems (SpecDiff)                                       *)

\* newItem was placed in list: an output item with its url, name, description
Placed(list, n) ==
  \E j \in 1..Len(list) :
    /\ list[j].url = n.url
    /\ list[j].name = n.name
    /\ list[j].description = n.description

\* the index of the last old item with this url
IsLastOld(k, url) ==
  /\ k \in 1..Len(dOld)
  /\ dOld[k].url = url
  /\ \A j \in (k+1)..Len(dOld) : dOld[j].url # url

\* C1: the URLs of added, unchanged and updated together are exactly the
\* URLs of new, and the URLs of removed are exactly the URLs of old that do
\* not occur in new.
C1_DiffPartition ==
  dPc = "done" =>
    /\ UrlsOf(dRes.added) \cup UrlsOf(dRes.unchanged) \cup UrlsOf(dRes.updated)
         = UrlsOf(dNew)
    /\ UrlsOf(dRes.removed) = UrlsOf(dOld) \ UrlsOf(dNew)

C1_Witness ==
  /\ dPc = "done"
  /\ Len(dRes.added) > 0
  /\ Len(dRes.removed) > 0
  /\ UrlsOf(dOld) \cap UrlsOf(dNew) = {}

\* C2: every item in unchanged or updated carries the github record and the
\* lastEnriched of an old item with the same URL (the one the lookup keeps:
\* the last such old item), not those of the newly parsed item.
C2_CarriesOldEnrichment ==
  dPc = "done" =>
    \A it \in {dRes.unchanged[j] : j \in 1..Len(dRes.unchanged)}
              \cup {dRes.updated[j] : j \in 1..Len(dRes.updated)} :
      \E k \in 1..Len(dOld) :
        /\ IsLastOld(k, it.url)
        /\ it.github = dOld[k].github
        /\ it.lastEnriched = dOld[k].lastEnriched

C2_Witness ==
  /\ dPc = "done"
  /\ \E j \in 1..Len(dRes.unchanged) : dRes.unchanged[j].github.kind = "resolved"
  /\ \E j \in 1..Len(dRes.updated) :
       /\ dRes.updated[j].github.kind = "resolved"
       /\ dRes.updated[j].lastEnriched # Undefined

\* C3 as stated: unchanged iff SOME old item has the URL with the same name
\* and description, updated iff SOME old item has the URL and differs.
C3_AnyOldItemDecides ==
  dPc = "done" =>
    \A k \in 1..Len(dNew) :
      LET n == dNew[k]
          olds == {dOld[j] : j \in {i \in 1..Len(dOld) : dOld[i].url = n.url}}
      IN  /\ Placed(dRes.added, n) <=> olds = {}
          /\ Placed(dRes.unchanged, n) <=>
               \E o \in olds : o.name = n.name /\ o.description = n.description
          /\ Placed(dRes.updated, n) <=>
               \E o \in olds : o.name # n.name \/ o.description # n.description

\* C3 amended: every new item is placed in exactly one list; added iff no
\* old item has its URL (the item then has no github record); otherwise the
\* LAST old item with its URL decides: unchanged iff name and description
\* are the same, updated iff one of them differs, and the output item has
\* the new name and description.
C3_LastOldItemDecides ==
  dPc = "done" =>
    /\ Len(dRes.added) + Len(dRes.unchanged) + Len(dRes.updated) = Len(dNew)
    /\ \A j \in 1..Len(dRes.added) : dRes.added[j].github = NoGithub
    /\ \A k \in 1..Len(dNew) :
         LET n == dNew[k]
             same(o) == o.name = n.name /\ o.description = n.description
         IN  /\ Placed(dRes.added, n) <=> ~HasUrl(dOld, n.url)
             /\ Placed(dRes.unchanged, n) <=>
                  \E i \in 1..Len(dOld) : IsLastOld(i, n.url) /\ same(dOld[i])
             /\ Placed(dRes.updated, n) <=>
                  \E i \in 1..Len(dOld) : IsLastOld(i, n.url) /\ ~same(dOld[i])
             /\ Cardinality({l \in {"a", "u", "c"} :
                  \/ l = "a" /\ Placed(dRes.added, n)
                  \/ l = "u" /\ Placed(dRes.unchanged, n)
                  \/ l = "c" /\ Placed(dRes.updated, n)}) = 1

\* a new item equal in name and description to the first old item of its
\* URL is placed in updated because the last old item of that URL differs
C3_Witness ==
  /\ dPc = "done"
  /\ Len(dOld) = 2
  /\ dOld[1].url = dOld[2].url
  /\ dOld[1].name # dOld[2].name
  /\ Len(dNew) = 2
  /\ dNew[1].name = dOld[1].name /\ dNew[1].description = dOld[1].description
  /\ dNew[1].url = dOld[1].url
  /\ Placed(dRes.updated, dNew[1])
  /\ Len(dRes.added) = 1

-----------------------------------------------------------------------------
(* Claims about batchEnrichItems (SpecEnrich)                              *)

validEntity(r) == validateGitHubName(r[1]) /\ validateGitHubName(r[2])

\* the indices of the items whose URL resolves to entity r
itemsOfEntity(r) == {n \in 1..Len(eItems) : extractGitHubRepo(eItems[n].url) = r}

C7_ThreeWayOutcome ==
  eLast.kind = "ok" =>
    \A k \in 1..Len(eLast.sent) :
      \A n \in itemsOfEntity(eLast.sent[k]) :
        /\ eLast.resp.slots[k] = "data" =>
             /\ eItems[n].github =
                  GitHubMetadata(WorldStars(eLast.sent[k]), WorldPushedAt(eLast.sent[k]))
             /\ eItems[n].lastEnriched = eLast.now
        /\ eLast.resp.slots[k] = "notFound" =>
             /\ eItems[n].github = GitHubNotFound(eLast.now)
             /\ eItems[n].lastEnriched = eLast.now
        /\ eLast.resp.slots[k] = "nullNoError" =>
             /\ eItems[n].github = eLast.before[n].github
             /\ eItems[n].lastEnriched = eLast.before[n].lastEnriched

\* the response of a second call resolves an entity with 0 stars and has a
\* null slot without error for a rotation item, which stays as it was
C7_Witness ==
  /\ eLast.kind = "ok"
  /\ \E k \in 1..Len(eLast.sent) :
       /\ eLast.resp.slots[k] = "data"
       /\ WorldStars(eLast.sent[k]) = 0
       /\ \E n \in itemsOfEntity(eLast.sent[k]) : eItems[n].github.kind = "resolved"
  /\ \E k \in 1..Len(eLast.sent) :
       /\ eLast.resp.slots[k] = "nullNoError"
       /\ \E n \in itemsOfEntity(eLast.sent[k]) :
            eItems[n].github.kind = "resolved" /\ eItems[n].lastEnriched = 1
  /\ \E c \in 1..Len(eCalls) : c < Len(eCalls)

\* C11: without a credential batchEnrichItems makes no provider call, leaves
\* every item as it was passed in and returns (it never enters the batch
\* loop, the only place where it can fail).
C11_NoTokenPassthrough ==
  ~eToken /\ ePc # "off" =>
    /\ ePc \in {"start", "done"}
    /\ eCalls = <<>>
    /\ eItems = eInput

\* batchEnrichItems has returned without credential although an item of the
\* input is a candidate with a valid GitHub entity and no record
C11_Witness ==
  /\ ~eToken /\ ePc = "done"
  /\ \E n \in 1..Len(eInput) :
       /\ extractGitHubRepo(eInput[n].url) # NullRepo
       /\ validEntity(extractGitHubRepo(eInput[n].url))
       /\ eInput[n].github = NoGithub

-----------------------------------------------------------------------------
(* Claims about the runs of build-items.ts (Spec)                          *)

NoDuplicates(q) == \A i, j \in 1..Len(q) : i # j => q[i] # q[j]

CountedItems(ls) ==
  Cardinality(UNION {{<<k, j>> : j \in 1..Len(ls[k].items)} : k \in 1..Len(ls)})

\* C10: the itemCount of the written snapshot is the number of items in its
\* entries, the processed, the carried-over and the merge-preserved ones, as
\* they are after the reaper.
C10_ItemCountIsSum ==
  diskIndex.exists => diskIndex.itemCount = CountedItems(diskIndex.lists)

\* a filtered run that carried a fresh list over, kept another list by
\* merge mode and reaped an item has written a snapshot that is not empty
C10_Witness ==
  /\ pc = "done"
  /\ isFiltering /\ freshLists # <<>>
  /\ \E k \in 1..Len(diskIndex.lists) : diskIndex.lists[k].repo \notin SeqToSet(lists)
  /\ reapedNow # {}
  /\ diskIndex.itemCount > 0

\* C11 (the freshness query): without a credential batchQueryListRepos
\* returns an empty map, every selected source is classified stale, also
\* when a snapshot exists, and the run goes on.
C11_NoTokenAllStale ==
  ~token /\ pc \in {"fetch", "process", "retry", "enrich", "reap", "done"} =>
    /\ \A s \in Sources : listMetadata[s] = RemoteAbsent
    /\ staleLists = lists
    /\ freshLists = <<>>

\* a second run without credential has ended; the snapshot of the first run
\* held the selected sources
C11_NoTokenSecondRun ==
  /\ ~token /\ pc = "done" /\ run = 2
  /\ staleLists = Registry
  /\ writes.index

-----------------------------------------------------------------------------
(* Claims about the batch loop of batchEnrichItems (SpecLoop)              *)

\* C12: a batch answered with a rate-limit signal is sent again, and no
\* batch is sent more often than once plus maxRetries times.
C12_BatchSentAtMostCeiling ==
  /\ lastOutcome = "rateLimited" /\ lPc = "loop" => batchNum < totalBatches
  /\ sends <= maxRetries + 1

\* C12, what the loop does: after a rate-limit signal the loop stays at the
\* batch (it is the next one sent), however often the signal has come.
C12_RateLimitedBatchStays ==
  [][lastOutcome' = "rateLimited" => batchNum' = batchNum /\ lPc' = "loop"]_vars

\* C13: batchEnrichItems returns, whatever the provider answers (the run
\* awaits it before it reaps and writes).
C13_EnrichmentReturns == <>(lPc = "done")

\* C14: when the first call of a batch got a rate-limit signal and the second
\* call of the batch succeeded, the delay for the following batches is the
\* delay that was in force before the first call.
C14_ResumesPreBackoffCadence ==
  lastOutcome = "ok" /\ sends = 2 => currentDelay = prevDelay

\* C14, amended: the backoff after the signal is min(base * 2^k, maxBackoff)
\* for k >= 1 consecutive errors, currentDelay is set to it, and after the
\* success of the second call the delay is nine tenths of the backoff (of
\* min(1.5 * backoff, 5000) when the quota is low), above the base delay.
C14_DelayDecaysFromBackoff ==
  /\ lastOutcome = "rateLimited" =>
       /\ \E k \in 1..ErrorsSaturation :
            lastBackoff = Min(baseDelayMs * Pow2(k), maxBackoffMs)
       /\ currentDelay = lastBackoff
  /\ lastOutcome = "ok" /\ sends = 2 =>
       /\ currentDelay > baseDelayMs
       /\ ~lastLowQuota => currentDelay = (9 * lastBackoff) \div 10
       /\ lastLowQuota =>
            currentDelay = (9 * Min((3 * lastBackoff) \div 2, lowQuotaMaxDelayMs)) \div 10

\* the first batch was sent at the base delay, got the signal, succeeded at
\* the second call, and the delay is 900 ms
C14_Witness ==
  /\ lastOutcome = "ok" /\ sends = 2
  /\ prevDelay = baseDelayMs
  /\ lastBackoff = 2 * baseDelayMs
  /\ currentDelay = 900

-----------------------------------------------------------------------------
(* Claims about carried-over and preserved entries (Spec)                  *)

\* q without the elements at the positions in D
Without(q, D) ==
  LET F[k \in 0..Len(q)] ==
        IF k = 0 THEN <<>>
        ELSE IF k \in D THEN F[k-1] ELSE Append(F[k-1], q[k])
  IN  F[Len(q)]

\* the entries of the loaded snapshot whose source the run did not select
OutsideSelection ==
  {k \in 1..Len(existingIndex.lists) : existingIndex.lists[k].repo \notin SeqToSet(lists)}

Reverified(old, new) ==
  /\ new.url = old.url /\ new.name = old.name /\ new.description = old.description
  /\ old.github.kind = "resolved" /\ old.lastEnriched # Undefined
  /\ new.github.kind = "resolved" /\ new.lastEnriched = clock

\* new is old without some Resolved items whose URLs were reaped in this
\* run, every other item as it was, or written back from a candidate of the
\* rotation: an occurrence of the same URL in old (the item itself when the
\* URL occurs once), as it was or re-verified; at most RecheckBatchSize items
\* are not as they were
RotationOnly(old, new) ==
  \E D \in SUBSET (1..Len(old)) :
    LET rest == Without(old, D)
        touched == {j \in 1..Len(rest) : j <= Len(new) /\ new[j] # rest[j]}
    IN  /\ \A k \in D : old[k].github.kind = "resolved" /\ old[k].url \in reapedNow
        /\ Len(new) = Len(rest)
        /\ \A j \in touched :
             \E i \in 1..Len(old) :
               /\ old[i].url = rest[j].url
               /\ old[i].github.kind = "resolved" /\ old[i].lastEnriched # Undefined
               /\ new[j] = old[i] \/ Reverified(old[i], new[j])
        /\ Cardinality(D) + Cardinality(touched) <= RecheckBatchSize

NotFetchedNorParsed(r) ==
  /\ ~readmeCache[r].ok
  /\ r \notin fetchFailedRepos
  /\ \A call \in diffLog : call.repo # r

Enriched(old, new) ==
  /\ new.url = old.url /\ new.name = old.name /\ new.description = old.description
  /\ IsGitHubUrl(old.url)
  /\ new.github.kind = "resolved" /\ new.lastEnriched = clock

\* new is old without some items whose URLs were reaped in this run, every
\* other item as it was, or written back from a candidate: an occurrence of
\* the same URL in old (the item itself when the URL occurs once), as it was
\* or enriched in this run
EnrichmentOnly(old, new) ==
  \E D \in SUBSET (1..Len(old)) :
    LET rest == Without(old, D)
    IN  /\ \A k \in D : old[k].url \in reapedNow
        /\ Len(new) = Len(rest)
        /\ \A j \in 1..Len(rest) :
             \/ new[j] = rest[j]
             \/ \E i \in 1..Len(old) :
                  /\ old[i].url = rest[j].url
                  /\ new[j] = old[i] \/ Enriched(old[i], new[j])

-----------------------------------------------------------------------------
(* Claims about the retry passes (Spec)                                    *)

\* C17: a stale source whose README could not be fetched in the main pass
\* is in failedLists when the first retry pass is about to start.
C17_FetchFailedIsRetried ==
  pc = "retry" /\ attempt = 1 =>
    \A r \in fetchFailedRepos : r \in SeqToSet(failedLists)

\* C17, what the main pass does: failedLists holds the sources whose
\* processing threw, and no source whose fetch failed.
C17_OnlyExceptionsAreRetried ==
  pc = "retry" /\ attempt = 1 =>
    \A r \in SeqToSet(failedLists) : readmeCache[r].ok /\ r \notin fetchFailedRepos

-----------------------------------------------------------------------------
(* Claims about the fetch stage (SpecFetch)                                *)

\* C18: at every moment of the fetch stage, in the main pass and in every
\* retry pass, at most CONCURRENCY README requests are in flight.
C18_BoundedFanOut == Cardinality(inFlight) <= CONCURRENCY

\* a retry pass has a full batch of requests in flight, some of them for a
\* later URL of their repo, and more lists are waiting behind the batch
C18_Witness ==
  /\ hPass >= 1
  /\ Cardinality(inFlight) = CONCURRENCY
  /\ \E req \in inFlight : req[2] > 1
  /\ hI + CONCURRENCY < Len(hQueue)

-----------------------------------------------------------------------------
(* Claims about the rolling re-check (SpecRotate)                          *)

\* the item at url is in the snapshot, resolved and with a lastEnriched
InRotation(url) ==
  \E k \in 1..Len(rIndex) : \E j \in 1..Len(rIndex[k].items) :
    /\ rIndex[k].items[j].url = url
    /\ rIndex[k].items[j].github.kind = "resolved"
    /\ rIndex[k].items[j].lastEnriched # Undefined

\* the run was made with a credential and the provider answered, with data
\* or NOT_FOUND, for every candidate
AnsweredRun ==
  /\ rPc = "write" /\ rToken
  /\ \A k \in 1..Len(rCands) : rCands[k].item.url \in rVerified

-----------------------------------------------------------------------------
(* Claims about the dead-item reaper (Spec)                                *)

\* the URLs of the items of a snapshot whose record is NotFound
NotFoundUrls(ls) ==
  {u \in UNION {UrlsOf(ls[k].items) : k \in 1..Len(ls)} :
     \E k \in 1..Len(ls) : \E j \in 1..Len(ls[k].items) :
       ls[k].items[j].url = u /\ ls[k].items[j].github.kind = "notFound"}

\* C20: once a run has reaped and written, no entry of the index holds an
\* item whose record is NotFound, and the URL of every item that had such a
\* record after enrichment is in the deadUrls.json this run wrote; no
\* items.json.gz ever written holds an item with a NotFound record.
C20_NotFoundReaped ==
  /\ NotFoundUrls(diskIndex.lists) = {}
  /\ pc = "done" =>
       /\ NotFoundUrls(index.lists) = {}
       /\ reapedNow \subseteq SeqToSet(diskDead)

\* a run has ended that found an item NotFound and removed it, and the
\* snapshot it wrote still holds items
C20_Witness ==
  /\ pc = "done" /\ writes.index /\ writes.deadUrls
  /\ reapedNow # {}
  /\ \E k \in 1..Len(diskIndex.lists) : diskIndex.lists[k].items # <<>>

-----------------------------------------------------------------------------
(* Claims about batchQueryListRepos (SpecProbe)                            *)

\* C21: an id that does not match the identifier pattern is never embedded
\* in a query of the freshness prober.
C21_InvalidIdNeverEmbedded ==
  \A id \in qEmbedded : validateGitHubName(id[1]) /\ validateGitHubName(id[2])

\* C21, what the prober does: every id of a batch is embedded in the query
\* of the batch.
C21_EveryIdEmbedded ==
  qPc = "done" /\ qToken => qEmbedded = SeqToSet(qRepos)

\* the ids of the batch that log entry b stands for
batchOfEntry(b) == SubSeq(qRepos, b.first + 1, Min(b.first + BatchSize, Len(qRepos)))

\* C22: with a credential the call ends by returning; the map holds an
\* entry for exactly the requested ids; the ids of a batch whose request
\* failed are null, and the ids of every answered batch hold what their slot
\* held: the timestamp, or null.
C22_EntryForEveryId ==
  /\ qPc \in {"off", "start", "loop", "done"}
  /\ qPc = "done" /\ qToken =>
       /\ \A id \in SeqToSet(ProbeIds) :
            qResults[id] # RemoteAbsent <=> id \in SeqToSet(qRepos)
       /\ \A n \in 1..Len(qLog) :
            LET b == qLog[n]
                batch == batchOfEntry(b)
            IN  \A k \in 1..Len(batch) :
                  qResults[batch[k]] =
                    IF b.kind = "answered" /\ b.slots[k] = "data"
                    THEN RemoteAt(GitHubDateTime(WorldPushedAt(batch[k])))
                    ELSE RemoteNull
       /\ Len(qLog) * BatchSize >= Len(qRepos)

\* a call with a credential has returned; a batch failed, and another batch
\* was answered with a timestamp for one id
C22_Witness ==
  /\ qPc = "done" /\ qToken
  /\ \E n \in 1..Len(qLog) : qLog[n].kind # "answered"
  /\ \E n \in 1..Len(qLog) :
       qLog[n].kind = "answered" /\ \E k \in 1..Len(qLog[n].slots) : qLog[n].slots[k] = "data"

-----------------------------------------------------------------------------
(* Claims about sources that fail (Spec)                                   *)

\* C23: a stale source that has an entry in the loaded snapshot and whose
\* README could not be fetched in the run is still in the written snapshot.
C23_FailedSourceKeepsEntry ==
  pc = "done" =>
    \A r \in fetchFailedRepos :
      hasList(existingIndex.lists, r) => hasList(diskIndex.lists, r)

\* C23, filtered runs: merge mode writes the loaded entry of such a source.
C23_FilteredRunKeepsEntry ==
  pc = "done" /\ isFiltering =>
    \A r \in fetchFailedRepos :
      hasList(existingIndex.lists, r) => hasList(diskIndex.lists, r)

-----------------------------------------------------------------------------
(* C24: a failed enrichment call                                           *)

\* the items of the entities of a batch are as they were handed in
batchUntouched(batch) ==
  \A k \in 1..Len(batch) :
    \A n \in itemsOfEntity(batch[k]) :
      /\ eItems[n].github = eInput[n].github
      /\ eItems[n].lastEnriched = eInput[n].lastEnriched

\* C24 as stated: once batchEnrichItems has returned, the items of every
\* batch one of whose calls failed, with whatever failure, have the github
\* and lastEnriched they were handed in with.
C24_FailedBatchLeftAsItWas ==
  ePc = "done" =>
    \A c \in 1..Len(eLog) : eLog[c].kind # "ok" => batchUntouched(eLog[c].batch)

\* C24 amended: a failed call changes no item; a batch whose call failed
\* with anything but a rate-limit signal is given up, and its items keep
\* the github and lastEnriched they were handed in with from then on; the
\* list handed back is the input list, item for item.
C24_AbandonedBatchLeftAsItWas ==
  /\ eLast.kind \in {"error", "rateLimited"} => eItems = eLast.before
  /\ \A c \in 1..Len(eLog) : eLog[c].kind = "error" => batchUntouched(eLog[c].batch)
  /\ Len(eItems) = Len(eInput)
  /\ \A n \in 1..Len(eItems) :
       /\ eItems[n].name = eInput[n].name
       /\ eItems[n].url = eInput[n].url
       /\ eItems[n].description = eInput[n].description

\* returned after one batch was given up and another was answered with data
C24_Witness ==
  /\ ePc = "done"
  /\ \E c \in 1..Len(eLog) :
       /\ eLog[c].kind = "error"
       /\ \E k \in 1..Len(eLog[c].batch) : itemsOfEntity(eLog[c].batch[k]) # {}
  /\ \E n \in 1..Len(eItems) :
       eItems[n].github.kind = "resolved" /\ eInput[n].github = NoGithub

-----------------------------------------------------------------------------
(* C25: candidates are grouped by entity                                   *)

\* the distinct entities the candidates' URLs resolve to
entitiesOfInput ==
  {extractGitHubRepo(eInput[n].url) : n \in 1..Len(eInput)} \ {NullRepo}

\* the slots naming entity r in the calls made so far, the calls that were
\* answered with a rate-limit signal (and are therefore repeated) left out
slotsNaming(r) ==
  {ck \in (1..Len(eCalls)) \X (1..BatchSize) :
     /\ eLog[ck[1]].kind # "rateLimited"
     /\ ck[2] <= Len(eCalls[ck[1]])
     /\ eCalls[ck[1]][ck[2]] = r}

-----------------------------------------------------------------------------
(* C26: an upstream change after the fetch                                 *)

\* C26: no run whose freshness query resolves classifies the source fresh
\* while its README has changed since the content of the entry was fetched.
C26_NoChangeMissed == ~kMissed

-----------------------------------------------------------------------------
(* C27: which answers mark an item NotFound                                *)

\* C27: after an answered call the items of an entity whose slot is null,
\* with an error of another type than not-found or with no error at all,
\* are as they were before the call.
C27_OnlyNotFoundMarksDead ==
  eLast.kind = "ok" =>
    \A k \in 1..Len(eLast.sent) :
      eLast.resp.slots[k] \in {"otherError", "nullNoError"} =>
        \A n \in itemsOfEntity(eLast.sent[k]) : eItems[n] = eLast.before[n]

-----------------------------------------------------------------------------
(* C28: the retry passes                                                   *)

\* the sources an entry was rewritten for in retry pass p of this run
rewrittenIn(log, p) == {e.repo : e \in {x \in log : x.pass = p}}

\* the sources an entry was rewritten for in this run, in any pass
rewritten(log) == {e.repo : e \in log}

\* C28: at most MaxRetryPasses retry passes are run, and none with an empty
\* failing set; a pass handles only sources that were failing, the failing
\* set after it is a subset of the one before, and the sources that left it
\* are exactly those an entry was rewritten for in that pass; no source has
\* an entry rewritten twice in a run, and a source still failing has none.
C28_RetryPasses ==
  /\ [](/\ attempt \in 1..(MaxRetryPasses + 1)
        /\ \A e \in diffLog : e.pass \in 0..MaxRetryPasses
        /\ \A e1, e2 \in diffLog : e1.repo = e2.repo => e1.pass = e2.pass
        /\ SeqToSet(failedLists) \cap rewritten(diffLog) = {})
  /\ [][attempt' # attempt /\ run' = run =>
          /\ attempt' = attempt + 1
          /\ failedLists # <<>>
          /\ SeqToSet(failedLists') \subseteq SeqToSet(failedLists)
          /\ rewritten(diffLog') \ rewritten(diffLog)
               = SeqToSet(failedLists) \ SeqToSet(failedLists')
          /\ rewrittenIn(diffLog', attempt)
               = SeqToSet(failedLists) \ SeqToSet(failedLists')
          /\ \A q \in 0..MaxRetryPasses :
               q # attempt => rewrittenIn(diffLog', q) = rewrittenIn(diffLog, q)]_vars

\* a source failed in the main pass and in two retry passes, its entry was
\* rewritten in the last pass, and the run has gone on to the enrichment
C28_Witness ==
  /\ pc \in {"enrich", "reap", "done"}
  /\ attempt = MaxRetryPasses + 1
  /\ failedLists = <<>>
  /\ \E e \in diffLog : e.pass = MaxRetryPasses

-----------------------------------------------------------------------------
(* C29: the delay after a low-quota answer                                 *)

\* C29: an answered call that reports a remaining quota below the threshold
\* leaves a delay in force that is not smaller than the delay before it.
C29_LowQuotaNeverLowersDelay ==
  [][(callParity' # callParity /\ lastOutcome' = "ok" /\ lastLowQuota')
       => currentDelay' >= currentDelay]_vars

\* the part that holds: the delay is not lowered when it was at most the
\* low-quota cap less its tenth, and it is never lowered below that value
C29_LowQuotaRaisesSmallDelay ==
  [][(callParity' # callParity /\ lastOutcome' = "ok" /\ lastLowQuota')
       => /\ currentDelay * 10 <= lowQuotaMaxDelayMs * 9 => currentDelay' >= currentDelay
          /\ currentDelay * 10 > lowQuotaMaxDelayMs * 9 =>
               currentDelay' * 10 = lowQuotaMaxDelayMs * 9]_vars

-----------------------------------------------------------------------------
(* C30: the delay between its floor and its ceiling                        *)

\* C30: at every point the delay lies between baseDelayMs and maxBackoffMs;
\* an answered call without low-quota report takes a tenth off the delay
\* (fractions of a millisecond dropped) but never takes it below
\* baseDelayMs, so the delay falls with every such call until it is
\* baseDelayMs, stays there, and is there after DecaySteps such calls in a
\* row at the latest.
C30_DelayDecaysToFloor ==
  /\ [](/\ baseDelayMs <= wDelay
        /\ wDelay <= maxBackoffMs
        /\ wStreak = DecaySteps => wDelay = baseDelayMs)
  /\ [][wSignals' = wSignals =>
          /\ wDelay' >= baseDelayMs
          /\ wDelay' * 10 <= wDelay * 9 \/ wDelay' = baseDelayMs
          /\ wDelay' * 10 > wDelay * 9 - 10
          /\ wDelay = baseDelayMs => wDelay' = baseDelayMs]_vars

\* one answered call short of the floor on the way down from the ceiling
C30_Witness ==
  /\ wStreak = DecaySteps - 1
  /\ wDelay > baseDelayMs
  /\ wDelay * 9 <= baseDelayMs * 10

-----------------------------------------------------------------------------
(* C31: the backoff after a rate-limit signal                              *)

\* C31: the backoff waited after a rate-limit signal that is the k-th
\* consecutive failed attempt is min(baseDelayMs * 2^k, maxBackoffMs); it is
\* twice the backoff of the signal before it, up to the maximum; after an
\* answered call the count is 0, so the next signal waits twice the base
\* delay.
C31_BackoffDoublesToCap ==
  /\ [](/\ lastOutcome = "rateLimited" =>
             /\ consecutiveErrors >= 1
             /\ lastBackoff = Min(baseDelayMs * Pow2(consecutiveErrors), maxBackoffMs)
             /\ lastBackoff <= maxBackoffMs
        /\ lastOutcome = "ok" => consecutiveErrors = 0)
  /\ [][(callParity' # callParity /\ lastOutcome' = "rateLimited") =>
          /\ consecutiveErrors' = Min(consecutiveErrors + 1, ErrorsSaturation)
          /\ lastOutcome = "rateLimited" =>
               lastBackoff' = Min(2 * lastBackoff, maxBackoffMs)
          /\ lastOutcome \in {"ok", "none"} => lastBackoff' = 2 * baseDelayMs]_vars

\* a signal whose doubled backoff is cut to the maximum, after an earlier
\* batch was answered
C31_Witness ==
  /\ lastOutcome = "rateLimited"
  /\ batchNum >= 1
  /\ baseDelayMs * Pow2(consecutiveErrors) > maxBackoffMs
  /\ lastBackoff = maxBackoffMs

-----------------------------------------------------------------------------
(* C32: the rotation slice                                                 *)

\* the places <<entry, position>> of the items of a snapshot that hold a
\* Resolved record and a lastEnriched
rotationPlaces(ls) ==
  {kj \in UNION {{<<k, j>> : j \in 1..Len(ls[k].items)} : k \in 1..Len(ls)} :
     /\ IsGitHubUrl(ls[kj[1]].items[kj[2]].url)
     /\ ls[kj[1]].items[kj[2]].github.kind = "resolved"
     /\ ls[kj[1]].items[kj[2]].lastEnriched # Undefined}

\* the candidate the selection makes of the item at a place
candidateAt(ls, kj) ==
  [item |-> ls[kj[1]].items[kj[2]], sourceList |-> ls[kj[1]].repo]

\* the rotation slice among the candidates of a run: what follows the items
\* missing metadata
rotationSlice ==
  SubSeq(rCands, Len(missingMetadata(rIndex, Sources)) + 1, Len(rCands))

\* C32: the rotation slice of a run holds min(RecheckBatchSize, n) items, n
\* being the number of items of the snapshot with a Resolved record and a
\* lastEnriched; each of them is such an item, none more often than the
\* snapshot holds it; and no such item left out of the slice has a
\* lastEnriched strictly older than an item of the slice.
C32_OldestSlice ==
  rPc = "enrich" =>
    LET places == rotationPlaces(rIndex)
        slice == rotationSlice
    IN  /\ Len(slice) = Min(RecheckBatchSize, Cardinality(places))
        /\ \A p \in 1..Len(slice) :
             /\ slice[p].item.github.kind = "resolved"
             /\ slice[p].item.lastEnriched # Undefined
             /\ Cardinality({q \in 1..Len(slice) : slice[q] = slice[p]})
                  <= Cardinality({kj \in places : candidateAt(rIndex, kj) = slice[p]})
        /\ \A kj \in places :
             (\A p \in 1..Len(slice) : slice[p] # candidateAt(rIndex, kj)) =>
               \A p \in 1..Len(slice) :
                 ~(rIndex[kj[1]].items[kj[2]].lastEnriched < slice[p].item.lastEnriched)

\* more items qualify than the slice takes, some older than others, and an
\* item as old as the youngest of the slice is left out
C32_Witness ==
  /\ rPc = "enrich"
  /\ Cardinality(rotationPlaces(rIndex)) > RecheckBatchSize
  /\ Len(rotationSlice) = RecheckBatchSize
  /\ \E kj1, kj2 \in rotationPlaces(rIndex) :
       rIndex[kj1[1]].items[kj1[2]].lastEnriched < rIndex[kj2[1]].items[kj2[2]].lastEnriched
  /\ \E kj \in rotationPlaces(rIndex) :
       /\ \A p \in 1..Len(rotationSlice) : rotationSlice[p] # candidateAt(rIndex, kj)
       /\ rIndex[kj[1]].items[kj[2]].lastEnriched = rotationSlice[Len(rotationSlice)].item.lastEnriched

\* C32 in the runs of the pipeline: the slice is taken from every entry of
\* the merged snapshot, the entries kept by merge mode included, and holds
\* no item without record
C32_SliceOverMergedSnapshot ==
  pc = "enrich" =>
    LET slice == staleItems(index.lists)
    IN  /\ Len(slice) = Min(RecheckBatchSize, Cardinality(rotationPlaces(index.lists)))
        /\ \A p \in 1..Len(slice) :
             /\ slice[p].item.github.kind = "resolved"
             /\ \E kj \in rotationPlaces(index.lists) :
                  candidateAt(index.lists, kj) = slice[p]

-----------------------------------------------------------------------------
(* C33: the document fetcher                                               *)

\* the repos of the batches the current pass has settled
settledRepos == SeqToSet(SubSeq(hQueue, 1, Min(hI, Len(hQueue))))

\* C33 as stated: a source is marked fetch-failed only when all its
\* combinations have been requested and have failed.
C33_FailedOnlyAfterAllCombinations ==
  \A r \in hFailed :
    hTried[r].how # "none" => hTried[r].urls = Combinations /\ hTried[r].how = "null"

\* the part that holds: the combinations are requested one after the other
\* in their order, a repo whose README was obtained is requested no
\* further, a failed request of a combination before the last is followed
\* by the request of the next, and once a batch has settled each of its
\* repos is in exactly one of readmeCache and fetchFailedRepos.
C33_FetchedOrFailed ==
  /\ [](/\ hFetched \cap hFailed = {}
        /\ \A req \in inFlight : req[1] \notin hFetched \cup hFailed
        /\ hPc = "loop" => settledRepos \subseteq hFetched \cup hFailed
        /\ \A r \in hFailed :
             hTried[r].how = "null" => hTried[r].urls = Combinations)
  /\ [][\A req \in inFlight' \ inFlight :
          \/ req[2] = 1
          \/ <<req[1], req[2] - 1>> \in inFlight]_vars

-----------------------------------------------------------------------------
(* C34: a failing source and the other sources                             *)

\* the stale sources whose README was fetched and whose processing in the
\* main pass did not throw
processedInMainPass ==
  {s \in SeqToSet(staleLists) : readmeCache[s].ok} \ SeqToSet(failedLists)

\* C34: whatever sources fail to be fetched or throw while processed, right
\* after the main pass every other stale source has its entry rewritten in
\* this pass, stamped by this run and holding the URLs of its README less
\* the blocklisted ones; and a run that ends has written the snapshot and
\* the blocklist.
C34_FailuresAreIsolated ==
  /\ (pc = "retry" /\ attempt = 1) =>
       \A s \in processedInMainPass :
         /\ s \in rewrittenIn(diffLog, 0)
         /\ hasList(index.lists, s)
         /\ getList(index.lists, s).lastParsed = toISOString(clock)
         /\ UrlsOf(getList(index.lists, s).items) = UrlsOf(docs[s]) \ loadedDead
  /\ pc \in {"enrich", "reap", "done"} =>
       \A s \in SeqToSet(staleLists) :
         readmeCache[s].ok /\ s \notin SeqToSet(failedLists) =>
           s \in rewritten(diffLog) /\ hasList(index.lists, s)
  /\ pc = "done" => writes.index /\ writes.deadUrls

\* a run has ended and written, in which one stale source was not fetched
\* or threw in every pass while another was rewritten
C34_Witness ==
  /\ pc = "done" /\ writes.index /\ writes.deadUrls
  /\ Len(staleLists) >= 2
  /\ \E s \in SeqToSet(staleLists) :
       s \in fetchFailedRepos \/ s \in SeqToSet(failedLists)
  /\ \E s \in SeqToSet(staleLists) : s \in rewrittenIn(diffLog, 0)

-----------------------------------------------------------------------------
(* C35: the provider calls are serialized                                  *)

\* C35: at most one provider call is in flight; a call names at least one
\* and at most BatchSize entities; a call is sent only when no other is in
\* flight and, unless it is for the first batch, after the inter-batch
\* delay was awaited; and a run without rate-limit signal has made
\* ceil(n / BatchSize) calls for n distinct entities when it returns.
C35_SerializedBatches ==
  /\ [](/\ xInFlight \in {0, 1}
        /\ \A c \in 1..Len(xCalls) : Len(xCalls[c]) \in 1..BatchSize
        /\ (xPc = "done" /\ xSignals = 0) =>
             Len(xCalls) = (Len(xRepos) + BatchSize - 1) \div BatchSize)
  /\ [][xInFlight' > xInFlight =>
          /\ xInFlight = 0
          /\ xI = 0 \/ xWaited]_vars

\* a run of three batches, the last one short, has returned without
\* rate-limit signal
C35_Witness ==
  /\ xPc = "done" /\ xSignals = 0
  /\ Len(xCalls) >= 3
  /\ Len(xCalls[Len(xCalls)]) < BatchSize

-----------------------------------------------------------------------------
(* C36: what enrichment and write-back leave alone                         *)

\* entry new holds the items of entry old, one for one and in their order,
\* with their name, URL and description, and unchanged altogether where the
\* URL resolves to no entity
sameButRecords(old, new) ==
  /\ new.repo = old.repo
  /\ new.lastParsed = old.lastParsed
  /\ new.pushedAt = old.pushedAt
  /\ Len(new.items) = Len(old.items)
  /\ \A j \in 1..Len(old.items) :
       /\ new.items[j].name = old.items[j].name
       /\ new.items[j].url = old.items[j].url
       /\ new.items[j].description = old.items[j].description
       /\ extractGitHubRepo(old.items[j].url) = NullRepo => new.items[j] = old.items[j]

\* the URLs of the items of an entry are pairwise distinct
urlsDistinct(e) ==
  \A i, j \in 1..Len(e.items) : i # j => e.items[i].url # e.items[j].url

\* C36 as stated: batchEnrichItems and the write-back leave the entries of
\* the index, the number and order of their items and the name, URL and
\* description of every item as they were.
C36_EnrichmentFrame ==
  [][(pc = "enrich" /\ pc' = "reap") =>
       /\ Len(index'.lists) = Len(index.lists)
       /\ \A k \in 1..Len(index.lists) :
            sameButRecords(index.lists[k], index'.lists[k])]_vars

\* the part that holds: the same for every entry that lists no URL twice
C36_FrameWhereUrlsDistinct ==
  [][(pc = "enrich" /\ pc' = "reap") =>
       /\ Len(index'.lists) = Len(index.lists)
       /\ \A k \in 1..Len(index.lists) :
            /\ index'.lists[k].repo = index.lists[k].repo
            /\ Len(index'.lists[k].items) = Len(index.lists[k].items)
            /\ urlsDistinct(index.lists[k]) =>
                 sameButRecords(index.lists[k], index'.lists[k])]_vars

-----------------------------------------------------------------------------
(* C37: the written snapshot against the written blocklist                 *)

\* the URLs of all items of all entries of a snapshot
urlsOf(ls) ==
  UNION {{ls[k].items[j].url : j \in 1..Len(ls[k].items)} : k \in 1..Len(ls)}

\* C37 as stated: after every run no item of the written snapshot has a URL
\* that is in the blocklist written by that run.
C37_NoBlocklistedUrlInSnapshot ==
  pc = "done" => urlsOf(diskIndex.lists) \cap SeqToSet(diskDead) = {}

\* what the reaper does ensure: an item of the written snapshot whose URL is
\* in the written blocklist is never one that holds a NotFound record
C37_ReapedItemsAreGone ==
  pc = "done" =>
    \A k \in 1..Len(diskIndex.lists) : \A j \in 1..Len(diskIndex.lists[k].items) :
      diskIndex.lists[k].items[j].url \in SeqToSet(diskDead) =>
        diskIndex.lists[k].items[j].github.kind # "notFound"

\* before the reaper runs, an entry lists a URL twice, once with a NotFound
\* record and once without: the reaper removes the one, blocklists the URL
\* and writes the other
C37_DuplicateSurvives ==
  /\ pc = "reap"
  /\ \E k \in 1..Len(index.lists) : \E i, j \in 1..Len(index.lists[k].items) :
       /\ index.lists[k].items[i].url = index.lists[k].items[j].url
       /\ isDead(index.lists[k].items[i])
       /\ ~isDead(index.lists[k].items[j])

-----------------------------------------------------------------------------
(* C38: the outcome of a candidate reaches the stored item                 *)

\* the places of entry e whose item has URL u
occurrences(e, u) == {j \in 1..Len(e.items) : e.items[j].url = u}

\* the provider's answer of this run is stored at place j of entry e: a
\* Resolved or NotFound record with the time of the run
outcomeAt(e, j, t) ==
  /\ e.items[j].github.kind \in {"resolved", "notFound"}
  /\ e.items[j].lastEnriched = t

\* candidate c got an outcome in the step: some occurrence of its URL in its
\* source holds the answer of this run
gotOutcome(ls, c, t) ==
  \E j \in occurrences(getList(ls, c.sourceList), c.item.url) :
    outcomeAt(getList(ls, c.sourceList), j, t)

\* C38 as stated: the outcome of every candidate that got one is stored at
\* every occurrence of the candidate's URL in its source.
C38_OutcomeAtEveryOccurrence ==
  [][(pc = "enrich" /\ pc' = "reap" /\ token) =>
       LET cands == itemsToEnrich(index.lists, SeqToSet(lists))
       IN  \A c \in 1..Len(cands) :
             gotOutcome(index'.lists, cands[c], clock) =>
               \A j \in occurrences(getList(index'.lists, cands[c].sourceList),
                                    cands[c].item.url) :
                 outcomeAt(getList(index'.lists, cands[c].sourceList), j, clock)]_vars

\* the part that holds: the outcome is stored at the first occurrence, which
\* is every occurrence when the source lists the URL once
C38_OutcomeAtFirstOccurrence ==
  [][(pc = "enrich" /\ pc' = "reap" /\ token) =>
       LET cands == itemsToEnrich(index.lists, SeqToSet(lists))
       IN  \A c \in 1..Len(cands) :
             gotOutcome(index'.lists, cands[c], clock) =>
               LET e == getList(index'.lists, cands[c].sourceList)
                   occ == occurrences(e, cands[c].item.url)
               IN  /\ occ # {}
                   /\ outcomeAt(e, CHOOSE j \in occ : \A i \in occ : j <= i, clock)]_vars

-----------------------------------------------------------------------------
(* C39: listCount of the written snapshot                                  *)

C39_FailedNotCounted ==
  /\ pc = "done" /\ ~isFiltering /\ failedLists # <<>> /\ freshLists # <<>>
  /\ diskIndex.listCount = 1

\* the same while the run builds the index
C39_ListCountWhileBuilding ==
  index.listCount = Len(index.lists)

-----------------------------------------------------------------------------
(* C40: a second run over an unchanged upstream                            *)

\* the URLs of the items of an entry, in their order
urlSeq(e) == [j \in 1..Len(e.items) |-> e.items[j].url]

\* the run that has ended followed a full run in which every call succeeded,
\* and nothing changed upstream in between
afterCleanFullRun ==
  /\ pc = "done" /\ run > 1
  /\ token /\ faults = 0 /\ changes = 0
  /\ existingIndex.exists
  /\ Len(existingIndex.lists) = Len(Registry)

\* C40, classification: after a clean full run and no change upstream, the
\* next run finds every selected source fresh, fetches no document and
\* computes no diff.
C40_SecondRunAllFresh ==
  afterCleanFullRun =>
    /\ staleLists = <<>> /\ freshLists = lists
    /\ \A s \in Sources : readmeCache[s] = NoReadme
    /\ fetchFailedRepos = {} /\ failedLists = <<>>
    /\ diffLog = {}

\* C40 as stated: and it writes a snapshot with the same sources, the same
\* item URLs per source and an unchanged blocklist.
C40_SecondRunSameSnapshot ==
  afterCleanFullRun =>
    /\ C40_SecondRunAllFresh
    /\ Len(diskIndex.lists) = Len(existingIndex.lists)
    /\ \A k \in 1..Len(existingIndex.lists) :
         /\ diskIndex.lists[k].repo = existingIndex.lists[k].repo
         /\ urlSeq(diskIndex.lists[k]) = urlSeq(existingIndex.lists[k])
    /\ SeqToSet(diskDead) = loadedDead

C40_Witness ==
  /\ afterCleanFullRun
  /\ ~isFiltering
  /\ \E k \in 1..Len(diskIndex.lists) : diskIndex.lists[k].items # <<>>

=============================================================================
